---- MODULE Spec2Model ----
(***************************************************************************)
(* A model of the group expense splitter (src/src/App.vue): the component  *)
(* state (people, expenses, payments), the derived views of the balance    *)
(* engine, the codec of the share payload, the two persistence targets     *)
(* (address bar and local storage) and the reactive watchers that connect  *)
(* them.                                                                   *)
(*                                                                         *)
(* Conventions.                                                            *)
(*  - A string is a sequence of one-character strings, so that trim() and  *)
(*    toLowerCase() are computed and not assumed.                          *)
(*  - A JavaScript value that is not known to be a string is a tagged      *)
(*    record [t, v]: t = "num" (a finite number v), "inf" (a non-finite    *)
(*    number), "str", "bool", "null", "undef", "arr", "obj".               *)
(*  - Amounts are counted in hundredths (the amount inputs have            *)
(*    step="0.01"), so settlementEpsilon, 0.01 in the source, is 1 here.   *)
(*    Quotients are exact rationals [num, den]; floating-point rounding is *)
(*    not modelled.                                                        *)
(***************************************************************************)
EXTENDS Integers, Sequences, FiniteSets, TLC

VARIABLES
  people,        \* ref<Person[]>
  expenses,      \* ref<Expense[]>
  payments,      \* ref<Payment[]>
  shareId,       \* ref('')
  isHydrated,    \* ref(false)
  encodedShare,  \* ref('')
  history,       \* the session history; its last entry is the address bar
  storage,       \* localStorage[storageKey]: NoItem or a text
  pc,            \* where the onMounted hook stands
  pending,       \* syncUrl calls suspended in `await compressString`
  env,           \* what the browser offers: CompressionStream and friends
  events,        \* how many user events the session has handled
  op,            \* the handler that ran last, and what it was given
  showConfetti,  \* ref(false)
  confettiTimer, \* the id setTimeout returned last; 0 while it is undefined
  timers,        \* the ids of the timeouts the browser has pending
  settledSeen,   \* the value of allSettled the watcher of allSettled saw last
  unmounted      \* the component was torn down: its watchers are stopped

vars == <<people, expenses, payments, shareId, isHydrated, encodedShare,
          history, storage, pc, pending, env, events, op,
          showConfetti, confettiTimer, timers, settledSeen, unmounted>>

----------------------------------------------------------------------------
(* Bounds of the model. *)

MaxPeople == 3
MaxExpenses == 2
MaxPayments == 2
MaxPending == 2
MaxEvents == 2

----------------------------------------------------------------------------
(* Strings *)

Abs(a) == IF a >= 0 THEN a ELSE 0 - a

RECURSIVE trimStart(_)
trimStart(s) ==
  IF s # <<>> /\ Head(s) = " " THEN trimStart(Tail(s)) ELSE s

RECURSIVE trimEnd(_)
trimEnd(s) ==
  IF s # <<>> /\ s[Len(s)] = " " THEN trimEnd(SubSeq(s, 1, Len(s) - 1)) ELSE s

\* String.prototype.trim
trim(s) == trimEnd(trimStart(s))

\* String.prototype.toLowerCase
toLowerCase(s) ==
  [i \in 1..Len(s) |->
     CASE s[i] = "A" -> "a"
       [] s[i] = "B" -> "b"
       [] s[i] = "C" -> "c"
       [] OTHER -> s[i]]

\* the key of a name, as in `person.name.trim().toLowerCase()`
keyOf(s) == toLowerCase(trim(s))

----------------------------------------------------------------------------
(* JavaScript values and numbers *)

Num(n) == [t |-> "num", v |-> n]
Str(s) == [t |-> "str", v |-> s]
Bool(b) == [t |-> "bool", v |-> b]
Null == [t |-> "null", v |-> 0]
Undefined == [t |-> "undef", v |-> 0]
Arr(xs) == [t |-> "arr", v |-> xs]
Obj(r) == [t |-> "obj", v |-> r]

\* what v-model.number stores for a cleared number input: the string ''
EmptyInput == Str(<<>>)

\* clampAmount without Math.max: a finite amount is taken as it is
clampAmount_finiteOnly(x) == IF x.t = "num" THEN x.v ELSE 0

\* `Number.isFinite(x) ? Math.max(0, x) : 0`
clampAmount(x) == IF x.t = "num" /\ x.v > 0 THEN x.v ELSE 0

\* `x <= 0` on a value that may be a number or the string ''
jsLeqZero(x) ==
  CASE x.t = "num" -> x.v <= 0
    [] x.t = "str" -> x.v = <<>>
    [] OTHER -> FALSE

RECURSIVE GCD(_, _)
GCD(a, b) == IF b = 0 THEN a ELSE GCD(b, a % b)

\* the rational n/d (d > 0) in lowest terms
Rat(n, d) ==
  LET g == GCD(Abs(n), d)
  IN  [num |-> n \div g, den |-> d \div g]

RatOfInt(n) == [num |-> n, den |-> 1]
RatSub(a, b) == Rat(a.num * b.den - b.num * a.den, a.den * b.den)
RatLeq(a, b) == a.num * b.den <= b.num * a.den
RatAbs(a) == [num |-> Abs(a.num), den |-> a.den]

\* Map.get(k) ?? 0 and Map.set(k, v), a Map being a function on its keys
MapGet(m, k) == IF k \in DOMAIN m THEN m[k] ELSE 0
MapSet(m, k, x) == [y \in (DOMAIN m) \cup {k} |-> IF y = k THEN x ELSE m[y]]
EmptyMap == [y \in {} |-> 0]

----------------------------------------------------------------------------
(* The derived views of the balance engine *)

RECURSIVE trimmedPeople(_)
trimmedPeople(ps) ==
  IF ps = <<>> THEN <<>>
  ELSE LET name == trim(Head(ps).name)
       IN  IF Len(name) > 0 THEN <<name>> \o trimmedPeople(Tail(ps))
           ELSE trimmedPeople(Tail(ps))

\* uniqueLoop with the name itself as the key of `seen`
RECURSIVE uniqueLoop_caseSensitive(_, _, _)
uniqueLoop_caseSensitive(names, seen, unique) ==
  IF names = <<>> THEN unique
  ELSE IF Head(names) \notin seen
       THEN uniqueLoop_caseSensitive(Tail(names), seen \cup {Head(names)},
                                     Append(unique, Head(names)))
       ELSE uniqueLoop_caseSensitive(Tail(names), seen, unique)

RECURSIVE uniqueLoop(_, _, _)
uniqueLoop(names, seen, unique) ==
  IF names = <<>> THEN unique
  ELSE LET name == Head(names)
           key == toLowerCase(name)
       IN  IF key \notin seen
           THEN uniqueLoop(Tail(names), seen \cup {key}, Append(unique, name))
           ELSE uniqueLoop(Tail(names), seen, unique)

uniquePeople(ps) == uniqueLoop(trimmedPeople(ps), {}, <<>>)

normalizedExpenses(es) ==
  [i \in 1..Len(es) |->
     [payer |-> trim(es[i].payer),
      amount |-> clampAmount(es[i].amount),
      note |-> trim(es[i].note)]]

isValidPayment(p) == p.from # <<>> /\ p.to # <<>> /\ p.from # p.to

normalizedPayments(ys) ==
  SelectSeq([i \in 1..Len(ys) |->
               [from |-> trim(ys[i].from),
                to |-> trim(ys[i].to),
                amount |-> clampAmount(ys[i].amount),
                note |-> trim(ys[i].note)]],
            isValidPayment)

RECURSIVE sumAmounts(_)
sumAmounts(ne) ==
  IF ne = <<>> THEN 0 ELSE sumAmounts(SubSeq(ne, 1, Len(ne) - 1)) + ne[Len(ne)].amount

totalSpent(es) == sumAmounts(normalizedExpenses(es))

\* perPersonShare dividing by the number of entries of people
perPersonShare_perEntry(ps, es) ==
  IF Len(ps) = 0 \/ totalSpent(es) <= 0 THEN RatOfInt(0)
  ELSE Rat(totalSpent(es), Len(ps))

perPersonShare(ps, es) ==
  IF Len(uniquePeople(ps)) = 0 \/ totalSpent(es) <= 0 THEN RatOfInt(0)
  ELSE Rat(totalSpent(es), Len(uniquePeople(ps)))

RECURSIVE paidLoop(_, _)
paidLoop(ne, map) ==
  IF ne = <<>> THEN map
  ELSE LET expense == Head(ne)
           key == toLowerCase(expense.payer)
       IN  IF expense.payer = <<>> THEN paidLoop(Tail(ne), map)
           ELSE paidLoop(Tail(ne), MapSet(map, key, MapGet(map, key) + expense.amount))

paidByName(es) == paidLoop(normalizedExpenses(es), EmptyMap)

RECURSIVE sentLoop(_, _)
sentLoop(np, map) ==
  IF np = <<>> THEN map
  ELSE LET payment == Head(np)
           key == toLowerCase(payment.from)
       IN  IF payment.from = <<>> \/ payment.to = <<>> \/ payment.amount <= 0
           THEN sentLoop(Tail(np), map)
           ELSE sentLoop(Tail(np), MapSet(map, key, MapGet(map, key) + payment.amount))

sentByName(ys) == sentLoop(normalizedPayments(ys), EmptyMap)

RECURSIVE receivedLoop(_, _)
receivedLoop(np, map) ==
  IF np = <<>> THEN map
  ELSE LET payment == Head(np)
           key == toLowerCase(payment.to)
       IN  IF payment.from = <<>> \/ payment.to = <<>> \/ payment.amount <= 0
           THEN receivedLoop(Tail(np), map)
           ELSE receivedLoop(Tail(np), MapSet(map, key, MapGet(map, key) + payment.amount))

receivedByName(ys) == receivedLoop(normalizedPayments(ys), EmptyMap)

\* balanceOf with the two payment sums exchanged
balanceOf_exchanged(name, paidMap, sentMap, receivedMap, share) ==
  [name |-> name,
   paid |-> MapGet(paidMap, toLowerCase(name)),
   sent |-> MapGet(sentMap, toLowerCase(name)),
   received |-> MapGet(receivedMap, toLowerCase(name)),
   balance |-> RatSub(RatOfInt(MapGet(paidMap, toLowerCase(name))
                               - MapGet(sentMap, toLowerCase(name))
                               + MapGet(receivedMap, toLowerCase(name))),
                      share)]

\* one entry of `balances`: paid + sent - received - perPersonShare
balanceOf(name, paidMap, sentMap, receivedMap, share) ==
  [name |-> name,
   paid |-> MapGet(paidMap, toLowerCase(name)),
   sent |-> MapGet(sentMap, toLowerCase(name)),
   received |-> MapGet(receivedMap, toLowerCase(name)),
   balance |-> RatSub(RatOfInt(MapGet(paidMap, toLowerCase(name))
                               + MapGet(sentMap, toLowerCase(name))
                               - MapGet(receivedMap, toLowerCase(name))),
                      share)]

balances(ps, es, ys) ==
  [i \in 1..Len(uniquePeople(ps)) |->
     balanceOf(uniquePeople(ps)[i], paidByName(es), sentByName(ys),
               receivedByName(ys), perPersonShare(ps, es))]

settlementEpsilon == 1

\* allSettled without its test that a payment exists
settledWith_anyPayments(total, unique, rows, np) ==
  /\ total > 0
  /\ Len(unique) > 1
  /\ Len(rows) > 0
  /\ \A i \in 1..Len(rows) :
       RatLeq(RatAbs(rows[i].balance), RatOfInt(1))

\* the body of allSettled, given the views it reads
settledWith(total, unique, rows, np) ==
  /\ total > 0
  /\ Len(unique) > 1
  /\ Len(rows) > 0
  /\ Len(np) > 0
  /\ \A i \in 1..Len(rows) :
       RatLeq(RatAbs(rows[i].balance), RatOfInt(settlementEpsilon))

allSettled(ps, es, ys) ==
  settledWith(totalSpent(es), uniquePeople(ps), balances(ps, es, ys),
              normalizedPayments(ys))

hasGroupData(ps, es, ys) ==
  \/ \E i \in 1..Len(ps) : Len(trim(ps[i].name)) > 0
  \/ Len(es) > 0
  \/ Len(ys) > 0

----------------------------------------------------------------------------
(* The sync passes *)

Person(name, paid, paidAmount, paidTo, auto) ==
  [name |-> name, paid |-> paid, paidAmount |-> paidAmount, paidTo |-> paidTo,
   auto |-> auto]

\* Set.add on a Set kept in insertion order
SetAdd(s, x) == IF \E i \in 1..Len(s) : s[i] = x THEN s ELSE Append(s, x)

RECURSIVE referencedPayers(_, _)
referencedPayers(es, acc) ==
  IF es = <<>> THEN acc
  ELSE LET payer == trim(Head(es).payer)
       IN  referencedPayers(Tail(es),
             IF payer # <<>> THEN SetAdd(acc, toLowerCase(payer)) ELSE acc)

RECURSIVE referencedEndpoints(_, _)
referencedEndpoints(ys, acc) ==
  IF ys = <<>> THEN acc
  ELSE LET from == trim(Head(ys).from)
           to == trim(Head(ys).to)
           acc1 == IF from # <<>> THEN SetAdd(acc, toLowerCase(from)) ELSE acc
           acc2 == IF to # <<>> THEN SetAdd(acc1, toLowerCase(to)) ELSE acc1
       IN  referencedEndpoints(Tail(ys), acc2)

\* the Set `referenced` of syncPeopleFromExpenses, in insertion order
referencedNames(es, ys) == referencedEndpoints(ys, referencedPayers(es, <<>>))

\* originalOf looking at the payments' `to` before their `from`
originalOf_toFirst(name, es, ys) ==
  LET ei == {i \in 1..Len(es) : keyOf(es[i].payer) = name}
      fi == {i \in 1..Len(ys) : keyOf(ys[i].from) = name}
      ti == {i \in 1..Len(ys) : keyOf(ys[i].to) = name}
      first(S) == CHOOSE i \in S : \A j \in S : i <= j
  IN  IF ei # {} THEN es[first(ei)].payer
      ELSE IF ti # {} THEN ys[first(ti)].to
      ELSE IF fi # {} THEN ys[first(fi)].from
      ELSE name

\* expenses.find(payer matches)?.payer ?? payments.find(from)?.from
\*   ?? payments.find(to)?.to ?? name
originalOf(name, es, ys) ==
  LET ei == {i \in 1..Len(es) : keyOf(es[i].payer) = name}
      fi == {i \in 1..Len(ys) : keyOf(ys[i].from) = name}
      ti == {i \in 1..Len(ys) : keyOf(ys[i].to) = name}
      first(S) == CHOOSE i \in S : \A j \in S : i <= j
  IN  IF ei # {} THEN es[first(ei)].payer
      ELSE IF fi # {} THEN ys[first(fi)].from
      ELSE IF ti # {} THEN ys[first(ti)].to
      ELSE name

RECURSIVE addMissing(_, _, _, _, _)
addMissing(referenced, known, ps, es, ys) ==
  IF referenced = <<>> THEN ps
  ELSE LET name == Head(referenced)
       IN  IF name \notin known
           THEN addMissing(Tail(referenced), known \cup {name},
                  Append(ps, Person(originalOf(name, es, ys), FALSE, Num(0), <<>>, TRUE)),
                  es, ys)
           ELSE addMissing(Tail(referenced), known, ps, es, ys)

\* people.value.filter(...): entries without a name go, and so do entries
\* flagged auto that nothing refers to
filterPeople(ps, referenced) ==
  LET keep(person) ==
        /\ keyOf(person.name) # <<>>
        /\ ~(person.auto
             /\ \A i \in 1..Len(referenced) : referenced[i] # keyOf(person.name))
  IN  SelectSeq(ps, keep)

\* syncFiltered comparing the length at the end with the length at the start
syncFiltered_netLength(ps, pushed, referenced) ==
  [people |-> filterPeople(pushed, referenced),
   changed |-> Len(filterPeople(pushed, referenced)) # Len(ps)]

\* what syncPeopleFromExpenses leaves and returns: `pushed` is the list
\* after the loop that appends
syncFiltered(ps, pushed, referenced) ==
  [people |-> filterPeople(pushed, referenced),
   changed |-> Len(pushed) # Len(ps)
               \/ Len(filterPeople(pushed, referenced)) # Len(pushed)]

syncReferenced(ps, es, ys, referenced) ==
  syncFiltered(ps,
    addMissing(referenced, {keyOf(ps[i].name) : i \in 1..Len(ps)}, ps, es, ys),
    referenced)

\* syncPeopleFromExpenses: the new people list and the value returned
syncPeopleFromExpenses(ps, es, ys) ==
  syncReferenced(ps, es, ys, referencedNames(es, ys))

\* perRecipient.set(toKey, (perRecipient.get(toKey) ?? 0) + amount) on a Map
\* kept in insertion order, as a sequence of [to, amount]
recipientAdd(rs, toKey, amount) ==
  IF \E i \in 1..Len(rs) : rs[i].to = toKey
  THEN [i \in 1..Len(rs) |->
          IF rs[i].to = toKey THEN [to |-> toKey, amount |-> rs[i].amount + amount]
          ELSE rs[i]]
  ELSE Append(rs, [to |-> toKey, amount |-> amount])

RECURSIVE recipientTotals(_, _, _)
recipientTotals(np, fromKey, rs) ==
  IF np = <<>> THEN rs
  ELSE LET payment == Head(np)
       IN  IF payment.from = <<>> \/ payment.to = <<>> \/ payment.amount <= 0
              \/ toLowerCase(payment.from) # fromKey
           THEN recipientTotals(Tail(np), fromKey, rs)
           ELSE recipientTotals(Tail(np), fromKey,
                  recipientAdd(rs, toLowerCase(payment.to), payment.amount))

\* the loop with `>=` for `>`: the last maximum wins
RECURSIVE topRecipientLoop_lastMax(_, _, _)
topRecipientLoop_lastMax(rs, topRecipient, topAmount) ==
  IF rs = <<>> THEN topRecipient
  ELSE IF Head(rs).amount >= topAmount
       THEN topRecipientLoop_lastMax(Tail(rs), Head(rs).to, Head(rs).amount)
       ELSE topRecipientLoop_lastMax(Tail(rs), topRecipient, topAmount)

\* the loop `if(amount > topAmount)`: the first maximum wins
RECURSIVE topRecipientLoop(_, _, _)
topRecipientLoop(rs, topRecipient, topAmount) ==
  IF rs = <<>> THEN topRecipient
  ELSE IF Head(rs).amount > topAmount
       THEN topRecipientLoop(Tail(rs), Head(rs).to, Head(rs).amount)
       ELSE topRecipientLoop(Tail(rs), topRecipient, topAmount)

\* uniquePeople.find(name => name.toLowerCase() === topRecipient) ?? paidTo
matchOrKeep(unique, topRecipient, paidTo) ==
  LET hits == {i \in 1..Len(unique) : toLowerCase(unique[i]) = topRecipient}
  IN  IF hits = {} THEN paidTo
      ELSE unique[CHOOSE i \in hits : \A j \in hits : i <= j]

\* Math.max(0, perPersonShare - paid)
owedOf(share, paid) ==
  IF RatSub(share, RatOfInt(paid)).num > 0 THEN RatSub(share, RatOfInt(paid))
  ELSE RatOfInt(0)

\* owed > 0 && sent >= owed - settlementEpsilon, for a person with a name
fullyPaid(person, share, paidMap, sentTotals) ==
  /\ keyOf(person.name) # <<>>
  /\ owedOf(share, MapGet(paidMap, keyOf(person.name))).num > 0
  /\ RatLeq(RatSub(owedOf(share, MapGet(paidMap, keyOf(person.name))),
                   RatOfInt(settlementEpsilon)),
            RatOfInt(MapGet(sentTotals, keyOf(person.name))))

\* markPaid assigning paidAmount whatever it holds
markPaid_overwrite(person, sent, recipients, unique) ==
  [person EXCEPT
     !.paid = TRUE,
     !.paidAmount = Num(sent),
     !.paidTo = IF Len(recipients) > 0 /\ person.paidTo = <<>>
                THEN matchOrKeep(unique, topRecipientLoop(recipients, <<>>, -1),
                                 person.paidTo)
                ELSE @]

\* the assignments made to a person who is fully paid
markPaid(person, sent, recipients, unique) ==
  [person EXCEPT
     !.paid = TRUE,
     !.paidAmount = IF person.paidAmount = Num(0) THEN Num(sent) ELSE @,
     !.paidTo = IF Len(recipients) > 0 /\ person.paidTo = <<>>
                THEN matchOrKeep(unique, topRecipientLoop(recipients, <<>>, -1),
                                 person.paidTo)
                ELSE @]

\* the loop over people.value, given the views it reads
statusAll(ps, unique, share, paidMap, sentTotals, np) ==
  [i \in 1..Len(ps) |->
     IF ~fullyPaid(ps[i], share, paidMap, sentTotals) THEN ps[i]
     ELSE markPaid(ps[i], MapGet(sentTotals, keyOf(ps[i].name)),
                   recipientTotals(np, keyOf(ps[i].name), <<>>), unique)]

\* syncPeoplePaymentStatus: the people list after the in-place updates
syncPeoplePaymentStatus(ps, es, ys) ==
  statusAll(ps, uniquePeople(ps), perPersonShare(ps, es), paidByName(es),
            sentLoop(normalizedPayments(ys), EmptyMap), normalizedPayments(ys))

----------------------------------------------------------------------------
(* The codec.  A text is JsonText(j), the JSON text of the JSON value j,   *)
(* or NotJson, a text JSON.parse rejects.  A byte sequence is the UTF-8    *)
(* of a text, the gzip of a byte sequence or neither ("enc" says which); a *)
(* base64url string is the encoding of a byte sequence or NotBase64, a     *)
(* string atob rejects.                                                    *)

JsonText(j) == [kind |-> "json", j |-> j]
NotJson == [kind |-> "other", j |-> Null]

\* JSON.stringify of a value: non-finite numbers become null, undefined
\* members are left out
RECURSIVE jsonOf(_)
jsonOf(x) ==
  CASE x.t = "inf" -> Null
    [] x.t = "arr" -> Arr([i \in 1..Len(x.v) |->
                             IF x.v[i].t = "undef" THEN Null ELSE jsonOf(x.v[i])])
    [] x.t = "obj" -> Obj([f \in {g \in DOMAIN x.v : x.v[g].t # "undef"} |->
                             jsonOf(x.v[f])])
    [] OTHER -> x

JSONstringify(x) == JsonText(jsonOf(x))

\* JSON.parse: [ok, val]; ok = FALSE stands for the SyntaxError thrown
JSONparse(text) ==
  IF text.kind = "json" THEN [ok |-> TRUE, val |-> text.j]
  ELSE [ok |-> FALSE, val |-> Undefined]

NotBase64 == [b64 |-> FALSE, bytes |-> [enc |-> "invalid", of |-> NotJson]]

base64UrlEncodeBytes(bytes) == [b64 |-> TRUE, bytes |-> bytes]

\* [ok, bytes]; ok = FALSE stands for the exception atob throws
base64UrlDecodeToBytes(input) ==
  IF input.b64 THEN [ok |-> TRUE, bytes |-> input.bytes]
  ELSE [ok |-> FALSE, bytes |-> input.bytes]

\* new TextEncoder().encode(input), then base64UrlEncodeBytes
base64UrlEncodeString(input) ==
  base64UrlEncodeBytes([enc |-> "utf8", of |-> input])

\* [ok, text]; TextDecoder.decode never throws, bytes that are not the
\* UTF-8 of a text of ours decode to a text that is no JSON
base64UrlDecodeString(input) ==
  LET r == base64UrlDecodeToBytes(input)
  IN  [ok |-> r.ok, text |-> IF r.bytes.enc = "utf8" THEN r.bytes.of ELSE NotJson]

\* an encoded string: its first three characters when they are a known
\* prefix ('' otherwise) and what follows them
Encoded(prefix, body) == [prefix |-> prefix, body |-> body]

\* compressString whose fallbacks return the bare base64url string
compressString_noPrefix(input, e, gzipWorks) ==
  IF ~e.CompressionStream \/ ~e.DecompressionStream
  THEN Encoded("", base64UrlEncodeString(input))
  ELSE IF gzipWorks
       THEN Encoded("c1.", base64UrlEncodeBytes(
                     [enc |-> "gzip", of |-> [enc |-> "utf8", of |-> input]]))
       ELSE Encoded("", base64UrlEncodeString(input))

\* compressString; gzipWorks is whether the compression stream succeeds
compressString(input, e, gzipWorks) ==
  IF ~e.CompressionStream \/ ~e.DecompressionStream
  THEN Encoded("u1.", base64UrlEncodeString(input))
  ELSE IF gzipWorks
       THEN Encoded("c1.", base64UrlEncodeBytes(
                     [enc |-> "gzip", of |-> [enc |-> "utf8", of |-> input]]))
       ELSE Encoded("u1.", base64UrlEncodeString(input))

\* decompressString: [ok, text]; ok = FALSE stands for a rejection
decompressString(input, e) ==
  IF input.prefix = "c1."
  THEN LET r == base64UrlDecodeToBytes(input.body)
       IN  IF ~e.DecompressionStream \/ ~r.ok \/ r.bytes.enc # "gzip"
           THEN [ok |-> FALSE, text |-> NotJson]
           ELSE [ok |-> TRUE,
                 text |-> IF r.bytes.of.enc = "utf8" THEN r.bytes.of.of ELSE NotJson]
  ELSE base64UrlDecodeString(input.body)

\* whether decompressString suspends on a stream (the 'c1.' branch past its
\* synchronous checks) or finishes within the current task
decompressSuspends(input, e) ==
  /\ input.prefix = "c1."
  /\ e.DecompressionStream
  /\ base64UrlDecodeToBytes(input.body).ok

personPayload(ps) ==
  Arr([i \in 1..Len(ps) |->
    Obj([name |-> Str(trim(ps[i].name)),
         paid |-> Bool(ps[i].paid),
         paidAmount |-> ps[i].paidAmount,
         paidTo |-> Str(ps[i].paidTo),
         auto |-> Bool(ps[i].auto)])])

expensePayload(es) ==
  LET ne == normalizedExpenses(es)
  IN  Arr([i \in 1..Len(ne) |->
        Obj([payer |-> Str(ne[i].payer), amount |-> Num(ne[i].amount),
             note |-> Str(ne[i].note)])])

paymentPayload(ys) ==
  LET np == normalizedPayments(ys)
  IN  Arr([i \in 1..Len(np) |->
        Obj([from |-> Str(np[i].from), to |-> Str(np[i].to),
             amount |-> Num(np[i].amount), note |-> Str(np[i].note)])])

buildSharePayload(ps, es, ys, sid) ==
  Obj([v |-> Num(1),
       sid |-> IF sid # <<>> THEN Str(sid) ELSE Undefined,
       people |-> personPayload(ps),
       expenses |-> expensePayload(es),
       payments |-> paymentPayload(ys)])

\* the payload saveToStorage writes
storagePayload(ps, es, ys, sid) ==
  Obj([shareId |-> Str(sid),
       people |-> personPayload(ps),
       expenses |-> expensePayload(es),
       payments |-> paymentPayload(ys)])

----------------------------------------------------------------------------
(* Field-level decoding *)

\* `x.f` on a parsed value (`x?.f` when x is null): undefined unless x is
\* an object that has the member
member(x, f) ==
  IF x.t = "obj" /\ f \in DOMAIN x.v THEN x.v[f] ELSE Undefined

\* typeof entry === 'object' && entry
isObject(x) == x.t \in {"obj", "arr"}

\* `typeof x.f === t ? x.f : d` for a string or a boolean
typedField(x, f, t, d) == IF member(x, f).t = t THEN member(x, f).v ELSE d

\* `x.f ?? 0` for the typeof test: whatever the member holds is taken
numberField_unchecked(x, f) ==
  IF member(x, f).t \notin {"undef", "null"} THEN member(x, f) ELSE Num(0)

\* `typeof x.f === 'number' ? x.f : 0`
numberField(x, f) ==
  IF member(x, f).t \in {"num", "inf"} THEN member(x, f) ELSE Num(0)

decodePeople(xs) ==
  LET os == SelectSeq(xs, isObject)
  IN  [i \in 1..Len(os) |->
        Person(typedField(os[i], "name", "str", <<>>),
               typedField(os[i], "paid", "bool", FALSE),
               numberField(os[i], "paidAmount"),
               typedField(os[i], "paidTo", "str", <<>>),
               typedField(os[i], "auto", "bool", FALSE))]

decodeExpenses(xs) ==
  LET os == SelectSeq(xs, isObject)
  IN  [i \in 1..Len(os) |->
        [payer |-> typedField(os[i], "payer", "str", <<>>),
         amount |-> numberField(os[i], "amount"),
         note |-> typedField(os[i], "note", "str", <<>>)]]

decodePayments(xs) ==
  LET os == SelectSeq(xs, isObject)
  IN  [i \in 1..Len(os) |->
        [from |-> typedField(os[i], "from", "str", <<>>),
         to |-> typedField(os[i], "to", "str", <<>>),
         amount |-> numberField(os[i], "amount"),
         note |-> typedField(os[i], "note", "str", <<>>)]]

\* the legacy people list of the storage record: plain name strings
legacyPeople(xs) ==
  [i \in 1..Len(xs) |-> Person(xs[i].v, FALSE, Num(0), <<>>, FALSE)]

\* The component state the loaders work on, and the refs they assigned, in
\* the order of the assignments.
State(ps, es, ys, sid) ==
  [people |-> ps, expenses |-> es, payments |-> ys, shareId |-> sid]

\* the assignments of loadFromUrl once `parsed` is an object
applyUrlPayload(st, parsed) ==
  LET hasP == member(parsed, "people").t = "arr"
      hasE == member(parsed, "expenses").t = "arr"
      hasY == member(parsed, "payments").t = "arr"
  IN  [st |-> State(
         IF hasP THEN decodePeople(member(parsed, "people").v) ELSE st.people,
         IF hasE THEN decodeExpenses(member(parsed, "expenses").v) ELSE st.expenses,
         IF hasY THEN decodePayments(member(parsed, "payments").v) ELSE st.payments,
         IF member(parsed, "sid").t = "str" THEN member(parsed, "sid").v
         ELSE st.shareId),
       set |-> (IF hasP THEN <<"people">> ELSE <<>>)
               \o (IF hasE THEN <<"expenses">> ELSE <<>>)
               \o (IF hasY THEN <<"payments">> ELSE <<>>)]

NoItem == [kind |-> "none", j |-> Null]

\* loadFromStorage; raw is the stored item
loadFromStorage(st, raw) ==
  LET r == JSONparse(raw)
      parsed == r.val
      hasP == member(parsed, "people").t = "arr"
      hasE == member(parsed, "expenses").t = "arr"
      hasY == member(parsed, "payments").t = "arr"
      xs == member(parsed, "people").v
  IN  IF raw = NoItem \/ ~r.ok THEN [st |-> st, set |-> <<>>]
      ELSE [st |-> State(
              IF ~hasP THEN st.people
              ELSE IF \A i \in 1..Len(xs) : xs[i].t = "str" THEN legacyPeople(xs)
              ELSE decodePeople(xs),
              IF hasE THEN decodeExpenses(member(parsed, "expenses").v)
              ELSE st.expenses,
              IF hasY THEN decodePayments(member(parsed, "payments").v)
              ELSE st.payments,
              IF member(parsed, "shareId").t = "str" THEN member(parsed, "shareId").v
              ELSE st.shareId),
            set |-> (IF hasP THEN <<"people">> ELSE <<>>)
                    \o (IF hasE THEN <<"expenses">> ELSE <<>>)
                    \o (IF hasY THEN <<"payments">> ELSE <<>>)]

\* the empty string, which is also what a missing `d` parameter counts as
NoParam == Encoded("", [b64 |-> FALSE, bytes |-> [enc |-> "none", of |-> NotJson]])

\* whether the fragment's text parses to an object (hasUrlData)
urlDecodes(dataParam, e) ==
  LET d == decompressString(dataParam, e)
  IN  /\ dataParam # NoParam
      /\ d.ok
      /\ JSONparse(d.text).ok
      /\ isObject(JSONparse(d.text).val)

\* loadFromUrl falling back to storage only when there is no fragment
loadFromUrl_noFallback(st, dataParam, raw, e) ==
  IF dataParam = NoParam THEN loadFromStorage(st, raw)
  ELSE IF urlDecodes(dataParam, e)
       THEN applyUrlPayload(st, JSONparse(decompressString(dataParam, e).text).val)
       ELSE [st |-> st, set |-> <<>>]

\* loadFromUrl, from its call to its return
loadFromUrl(st, dataParam, raw, e) ==
  IF urlDecodes(dataParam, e)
  THEN applyUrlPayload(st, JSONparse(decompressString(dataParam, e).text).val)
  ELSE loadFromStorage(st, raw)

----------------------------------------------------------------------------
(* Persistence and the watchers.  A world is the record of everything a    *)
(* handler can read or write; the operators below are the functions of the *)
(* source as maps from worlds to worlds.                                   *)

World ==
  [people |-> people, expenses |-> expenses, payments |-> payments,
   shareId |-> shareId, isHydrated |-> isHydrated, encodedShare |-> encodedShare,
   history |-> history, storage |-> storage, pending |-> pending,
   showConfetti |-> showConfetti, confettiTimer |-> confettiTimer,
   timers |-> timers, settledSeen |-> settledSeen, unmounted |-> unmounted]

\* localStorage.setItem(storageKey, JSON.stringify(payload))
saveToStorage(w) ==
  [w EXCEPT !.storage =
     JSONstringify(storagePayload(w.people, w.expenses, w.payments, w.shareId))]

\* window.history.replaceState({}, '', url): the current entry is replaced
replaceState(h, url) == [h EXCEPT ![Len(h)] = url]

\* syncUrl up to its `await`: a call that gets that far is left suspended
\* in `pending` with the text it is compressing
syncUrl(w, thenSave) ==
  IF ~w.isHydrated THEN w
  ELSE IF ~hasGroupData(w.people, w.expenses, w.payments)
  THEN [w EXCEPT !.history = replaceState(@, NoParam), !.encodedShare = NoParam]
  ELSE [w EXCEPT !.pending = Append(@,
          [text |-> JSONstringify(
                      buildSharePayload(w.people, w.expenses, w.payments, w.shareId)),
           thenSave |-> thenSave])]

\* the `d` parameter of shareableUrl (url.hash); url.search is '' in both
\* of its branches
shareableUrl(ps, es, ys, encoded) ==
  IF ~hasGroupData(ps, es, ys) THEN NoParam ELSE encoded

RemoveAt(s, i) == SubSeq(s, 1, i - 1) \o SubSeq(s, i + 1, Len(s))

\* syncUrl from its `await` on, for the i-th suspended call; a call made by
\* shareSplit goes on to saveToStorage
written(w, i, encoded) ==
  [w EXCEPT !.encodedShare = encoded,
            !.history = replaceState(@, encoded),
            !.pending = RemoveAt(@, i)]

syncUrlResume(w, i, e, gzipWorks) ==
  IF w.pending[i].thenSave
  THEN saveToStorage(written(w, i, compressString(w.pending[i].text, e, gzipWorks)))
  ELSE written(w, i, compressString(w.pending[i].text, e, gzipWorks))

\* The watchers, named in the order the source creates them:
\*   W0 watch(allSettled), which reads all three lists,
\*   W1 watch(expenses), W2 watch(payments), W3 watch([people, expenses]),
\*   W4 watch([people, expenses, payments], flush: 'post').
preWatchers(source) ==
  CASE source = "expenses" -> <<"W0", "W1", "W3">>
    [] source = "payments" -> <<"W0", "W2">>
    [] source = "people" -> <<"W0", "W3">>

RECURSIVE queueJobs(_, _)
queueJobs(queue, jobs) ==
  IF jobs = <<>> THEN queue
  ELSE queueJobs(SetAdd(queue, Head(jobs)), Tail(jobs))

RECURSIVE queueFor(_, _)
queueFor(queue, sources) ==
  IF sources = <<>> THEN queue
  ELSE queueFor(queueJobs(queue, preWatchers(Head(sources))), Tail(sources))

\* the end of syncPeopleFromExpenses: `if(changed) saveToStorage()`
synced(w, r) ==
  IF r.changed THEN saveToStorage([w EXCEPT !.people = r.people])
  ELSE [w EXCEPT !.people = r.people]

\* the callback of watch(expenses)
watchExpenses(w) ==
  synced(w, syncPeopleFromExpenses(w.people, w.expenses, w.payments))

\* syncPeoplePaymentStatus on a world
paymentStatus(w) ==
  [w EXCEPT !.people = syncPeoplePaymentStatus(w.people, w.expenses, w.payments)]

\* the callback of watch(allSettled) without its clearTimeout
watchSettled_noClear(w) ==
  IF allSettled(w.people, w.expenses, w.payments) = w.settledSeen THEN w
  ELSE IF w.settledSeen THEN [w EXCEPT !.settledSeen = FALSE]
  ELSE [w EXCEPT !.settledSeen = TRUE,
                 !.showConfetti = TRUE,
                 !.timers = @ \cup {w.confettiTimer + 1},
                 !.confettiTimer = @ + 1]

\* the job of watch(allSettled): the callback runs when the value differs
\* from the one seen last; setTimeout returns the next id
watchSettled(w) ==
  IF allSettled(w.people, w.expenses, w.payments) = w.settledSeen THEN w
  ELSE IF w.settledSeen THEN [w EXCEPT !.settledSeen = FALSE]
  ELSE [w EXCEPT !.settledSeen = TRUE,
                 !.showConfetti = TRUE,
                 !.timers = (@ \ {w.confettiTimer}) \cup {w.confettiTimer + 1},
                 !.confettiTimer = @ + 1]

\* a job's outcome: the world after it and the refs it triggered; a
\* mutation triggers only when it changes a value
outcome(w, after, assigned) ==
  [w |-> after,
   set |-> IF assigned \/ after.people # w.people THEN <<"people">> ELSE <<>>]

\* a pre-flush job
runJob(job, w) ==
  CASE job = "W0" -> outcome(w, watchSettled(w), FALSE)
    [] job = "W1" -> outcome(w, watchExpenses(w), TRUE)
    [] job = "W2" -> outcome(w, paymentStatus(watchExpenses(w)), TRUE)
    [] job = "W3" -> outcome(w, paymentStatus(w), FALSE)

\* the scheduler's loop over the pre-flush queue: a job that is triggered
\* is queued unless it already waits; the running job may queue itself
RECURSIVE flushPre(_, _)
RECURSIVE flushRest(_, _)
flushRest(rest, r) == flushPre(queueFor(rest, r.set), r.w)

flushPre(queue, w) ==
  IF queue = <<>> THEN w ELSE flushRest(Tail(queue), runJob(Head(queue), w))

\* the callback of the post-flush watcher
watchAll(w) == saveToStorage(syncUrl(w, FALSE))

\* one flush of the scheduler after a handler that assigned the refs `set`;
\* the watchers of a component that was torn down are stopped
flushJobs(w, set) ==
  IF set = <<>> \/ w.unmounted THEN w
  ELSE watchAll(flushPre(queueFor(<<>>, set), w))

\* Without compression streams every `await` of syncUrl resolves within the
\* task that made the call, in the order of the calls.
RECURSIVE resumeAll(_, _)
resumeAll(w, e) ==
  IF w.pending = <<>> THEN w ELSE resumeAll(syncUrlResume(w, 1, e, TRUE), e)

awaitSuspends(e) == e.CompressionStream /\ e.DecompressionStream

\* a handler's assignments followed by everything that runs before the next
\* task: the flush and the continuations that are already resolved
settle(w, set, e) ==
  IF awaitSuspends(e) THEN flushJobs(w, set) ELSE resumeAll(flushJobs(w, set), e)

Commit(w) ==
  /\ people' = w.people
  /\ expenses' = w.expenses
  /\ payments' = w.payments
  /\ shareId' = w.shareId
  /\ isHydrated' = w.isHydrated
  /\ encodedShare' = w.encodedShare
  /\ history' = w.history
  /\ storage' = w.storage
  /\ pending' = w.pending
  /\ showConfetti' = w.showConfetti
  /\ confettiTimer' = w.confettiTimer
  /\ timers' = w.timers
  /\ settledSeen' = w.settledSeen
  /\ unmounted' = w.unmounted

----------------------------------------------------------------------------
(* The handlers: the world after the handler's own statements and the refs *)
(* it assigned or mutated, in order.                                       *)

Same(w) == [w |-> w, set |-> <<>>]

\* addPerson, newPersonName being `input`
addPerson(w, input) ==
  LET name == trim(input)
  IN  IF name = <<>> THEN Same(w)
      ELSE [w |-> [w EXCEPT !.people =
                     Append(@, Person(name, FALSE, Num(0), <<>>, FALSE))],
            set |-> <<"people">>]

\* the filter of removePerson looking at the senders alone
RECURSIVE withoutEndpoint_senderOnly(_, _)
withoutEndpoint_senderOnly(ys, nameKey) ==
  IF ys = <<>> THEN <<>>
  ELSE IF keyOf(Head(ys).from) # nameKey
       THEN <<Head(ys)>> \o withoutEndpoint_senderOnly(Tail(ys), nameKey)
       ELSE withoutEndpoint_senderOnly(Tail(ys), nameKey)

RECURSIVE withoutEndpoint(_, _)
withoutEndpoint(ys, nameKey) ==
  IF ys = <<>> THEN <<>>
  ELSE IF keyOf(Head(ys).from) # nameKey /\ keyOf(Head(ys).to) # nameKey
       THEN <<Head(ys)>> \o withoutEndpoint(Tail(ys), nameKey)
       ELSE withoutEndpoint(Tail(ys), nameKey)

hasPaidExpense(es, key) ==
  \E i \in 1..Len(es) :
    /\ toLowerCase(normalizedExpenses(es)[i].payer) = key
    /\ normalizedExpenses(es)[i].amount > 0

removePerson(w, index) ==
  IF index \notin 1..Len(w.people) THEN Same(w)
  ELSE LET key == keyOf(w.people[index].name)
       IN  IF key = <<>> \/ hasPaidExpense(w.expenses, key) THEN Same(w)
           ELSE [w |-> [w EXCEPT !.payments = withoutEndpoint(@, key),
                                 !.people = RemoveAt(@, index)],
                 set |-> <<"payments", "people">>]

\* addExpense, the three inputs being payer, amount (null when empty) and note
addExpense(w, payerInput, amountInput, noteInput) ==
  LET payer == trim(payerInput)
      amount == IF amountInput.t = "null" THEN Num(0) ELSE amountInput
  IN  IF payer = <<>> \/ jsLeqZero(amount) THEN Same(w)
      ELSE [w |-> [w EXCEPT !.expenses =
                     Append(@, [payer |-> payer, amount |-> amount,
                                note |-> trim(noteInput)])],
            set |-> <<"expenses">>]

Settlement == <<"S", "e", "t", "t", "l", "e", "m", "e", "n", "t">>

logPaymentForPerson(w, index) ==
  LET person == w.people[index]
      from == trim(person.name)
      to == trim(person.paidTo)
  IN  IF ~person.paid \/ from = <<>> \/ to = <<>> \/ from = to
         \/ jsLeqZero(person.paidAmount)
      THEN Same(w)
      ELSE [w |-> [w EXCEPT !.payments =
                     Append(@, [from |-> from, to |-> to,
                                amount |-> person.paidAmount,
                                note |-> Settlement])],
            set |-> <<"payments">>]

removeExpense(w, index) ==
  IF index \notin 1..Len(w.expenses) THEN Same(w)
  ELSE [w |-> [w EXCEPT !.expenses = RemoveAt(@, index)], set |-> <<"expenses">>]

\* resetGroup up to and including its call of syncUrl
resetGroup(w) ==
  [w |-> syncUrl([w EXCEPT !.people = <<>>, !.expenses = <<>>, !.payments = <<>>,
                           !.shareId = <<>>, !.storage = NoItem], FALSE),
   set |-> <<"people", "expenses", "payments">>]

\* shareSplit up to its `await syncUrl()`, and past it when syncUrl returned
\* without suspending; sid is what generateShareId returned
shareAwaited(w, after) ==
  [w |-> IF after.pending = w.pending THEN saveToStorage(after) ELSE after,
   set |-> <<>>]

shareSplit(w, sid) == shareAwaited(w, syncUrl([w EXCEPT !.shareId = sid], TRUE))

\* the v-model bindings of a row: one field of one entry is assigned
setPersonField(w, index, field, value) ==
  IF w.people[index][field] = value THEN Same(w)
  ELSE [w |-> [w EXCEPT !.people[index][field] = value], set |-> <<"people">>]

setExpenseField(w, index, field, value) ==
  IF w.expenses[index][field] = value THEN Same(w)
  ELSE [w |-> [w EXCEPT !.expenses[index][field] = value], set |-> <<"expenses">>]

\* the onMounted hook after `await loadFromUrl()`
mounted(w) ==
  [w |-> syncUrl(saveToStorage([paymentStatus(watchExpenses(w))
                                  EXCEPT !.isHydrated = TRUE]), FALSE),
   set |-> <<"people">>]

----------------------------------------------------------------------------
(* What the session is given: the browser, the address bar and the stored  *)
(* item at page load, and the values the user types.                       *)

Browser(c, d, g) == [CompressionStream |-> c, DecompressionStream |-> d, gzipWorks |-> g]

Browsers == {Browser(TRUE, TRUE, TRUE), Browser(FALSE, FALSE, FALSE)}

sA == <<"a">>
sB == <<"b">>
sC == <<"c">>

Expense(payer, amount, note) == [payer |-> payer, amount |-> amount, note |-> note]
Payment(from, to, amount, note) == [from |-> from, to |-> to, amount |-> amount, note |-> note]

\* a link shared from a group of three: a paid 90.00 for all, b and c have
\* each marked a payment of 30.00 to a that is not logged yet
SharedText ==
  JSONstringify(buildSharePayload(<<Person(sA, FALSE, Num(0), <<>>, FALSE),
                                    Person(sB, TRUE, Num(3000), sA, FALSE),
                                    Person(sC, TRUE, Num(3000), sA, FALSE)>>,
                                  <<Expense(sA, Num(9000), <<>>)>>, <<>>, <<>>))

InitialParams ==
  { NoParam,
    compressString(SharedText, Browser(TRUE, TRUE, TRUE), TRUE),
    compressString(SharedText, Browser(FALSE, FALSE, FALSE), FALSE),
    compressString(JsonText(Obj([v |-> Num(1)])), Browser(FALSE, FALSE, FALSE), FALSE),
    Encoded("c1.", base64UrlEncodeString(SharedText)),
    Encoded("", NotBase64) }

\* the record an earlier session stored: a paid an expense of 2, and b has
\* marked a payment of 1 to a that is not logged yet
StoredText ==
  JSONstringify(storagePayload(<<Person(sB, TRUE, Num(1), sA, FALSE),
                                 Person(sA, FALSE, Num(0), <<>>, FALSE)>>,
                               <<Expense(sA, Num(2), <<>>)>>, <<>>, <<>>))

\* ... and the same record once b's payment is logged: the group is settled.
\* A third entry, marked as having paid 'a', was since renamed to 'A'.
InitialItems ==
  { NoItem, NotJson, StoredText,
    JSONstringify(storagePayload(<<Person(sB, TRUE, Num(1), sA, FALSE),
                                   Person(sA, FALSE, Num(0), <<>>, FALSE),
                                   Person(<<"A">>, TRUE, Num(1), sA, FALSE)>>,
                                 <<Expense(sA, Num(2), <<>>)>>,
                                 <<Payment(sB, sA, Num(1), Settlement)>>, <<>>)) }

UiNames == {sA, sB}
ShareIds == {<<"s">>}

----------------------------------------------------------------------------
(* The session as a state machine *)

Init ==
  /\ people = <<>>
  /\ expenses = <<>>
  /\ payments = <<>>
  /\ shareId = <<>>
  /\ isHydrated = FALSE
  /\ encodedShare = NoParam
  /\ history \in {<<d>> : d \in InitialParams}
  /\ storage \in InitialItems
  /\ pc = "mount"
  /\ pending = <<>>
  /\ env \in Browsers
  /\ events = 0
  /\ op = [name |-> "setup", loaded |-> State(<<>>, <<>>, <<>>, <<>>)]
  /\ showConfetti = FALSE
  /\ confettiTimer = 0
  /\ timers = {}
  /\ settledSeen = FALSE
  /\ unmounted = FALSE

\* the `d` parameter of the address bar
dataParam == history[Len(history)]

withState(w, st) ==
  [w EXCEPT !.people = st.people, !.expenses = st.expenses,
            !.payments = st.payments, !.shareId = st.shareId]

Loaded(r) ==
  /\ Commit(settle(withState(World, r.st), r.set, env))
  /\ op' = [name |-> "loadFromUrl", loaded |-> r.st]

Ran(r) == Commit(settle(r.w, r.set, env))

\* a handler ran: its effects and what follows them within the task
Handled(name, r) ==
  /\ r.set # <<>> \/ r.w # World
  /\ Ran(r)
  /\ op' = [op EXCEPT !.name = name]
  /\ events' = events + 1
  /\ UNCHANGED <<pc, env>>

\* the user can act once the page is mounted, also while the hook waits
Interactive ==
  /\ pc \in {"decompress", "done"}
  /\ ~unmounted
  /\ Len(pending) < MaxPending
  /\ events < MaxEvents

\* onMounted calls loadFromUrl, which suspends in decompressString
Mount ==
  /\ pc = "mount"
  /\ decompressSuspends(dataParam, env)
  /\ pc' = "decompress"
  /\ UNCHANGED <<people, expenses, payments, shareId, isHydrated, encodedShare,
                 history, storage, pending, env, events, op,
                 showConfetti, confettiTimer, timers, settledSeen, unmounted>>

\* loadFromUrl returns (at once, or when the stream has ended), and the
\* watchers it triggered run
LoadFromUrl ==
  /\ \/ pc = "mount" /\ ~decompressSuspends(dataParam, env)
     \/ pc = "decompress"
  /\ Loaded(loadFromUrl(State(people, expenses, payments, shareId),
                        dataParam, storage, env))
  /\ pc' = "loaded"
  /\ UNCHANGED <<env, events>>

\* the rest of the onMounted hook
Mounted ==
  /\ pc = "loaded"
  /\ Ran(mounted(World))
  /\ op' = [op EXCEPT !.name = "mounted"]
  /\ pc' = "done"
  /\ UNCHANGED <<env, events>>

\* a suspended syncUrl goes on; the streams of two calls end in any order
SyncUrlResume ==
  /\ \E i \in 1..Len(pending) : Commit(syncUrlResume(World, i, env, env.gzipWorks))
  /\ UNCHANGED <<pc, env, events, op>>

AddPerson ==
  /\ Interactive
  /\ Len(people) < MaxPeople
  /\ \E name \in UiNames : Handled("addPerson", addPerson(World, name))

RemovePerson ==
  /\ Interactive
  /\ \E i \in 1..Len(people) :
       /\ \A j \in 1..Len(expenses) :
            toLowerCase(normalizedExpenses(expenses)[j].payer) # keyOf(people[i].name)
       /\ Handled("removePerson", removePerson(World, i))

AddExpense ==
  /\ Interactive
  /\ Len(expenses) < MaxExpenses
  /\ \E payer \in UiNames, amount \in {Num(2)} :
       Handled("addExpense", addExpense(World, payer, amount, <<>>))

RemoveExpense ==
  /\ Interactive
  /\ \E i \in 1..Len(expenses) : Handled("removeExpense", removeExpense(World, i))

LogPayment ==
  /\ Interactive
  /\ Len(payments) < MaxPayments
  /\ \E i \in 1..Len(people) : Handled("logPaymentForPerson", logPaymentForPerson(World, i))

ResetGroup ==
  /\ Interactive
  /\ hasGroupData(people, expenses, payments)
  /\ Handled("resetGroup", resetGroup(World))

ShareSplit ==
  /\ Interactive
  /\ \E sid \in ShareIds : Handled("shareSplit", shareSplit(World, sid))

EditPersonName ==
  /\ Interactive
  /\ \E i \in 1..Len(people), name \in UiNames \cup {<<>>} :
       Handled("editPerson", setPersonField(World, i, "name", name))

EditPersonPaid ==
  /\ Interactive
  /\ \E i \in 1..Len(people) :
       Handled("editPerson", setPersonField(World, i, "paid", ~people[i].paid))

\* the select offers '' and every unique name but the person's own
EditPersonPaidTo ==
  /\ Interactive
  /\ \E i \in 1..Len(people), k \in 0..Len(uniquePeople(people)) :
       /\ people[i].paid
       /\ k > 0 => toLowerCase(uniquePeople(people)[k]) # keyOf(people[i].name)
       /\ Handled("editPerson", setPersonField(World, i, "paidTo",
            IF k = 0 THEN <<>> ELSE uniquePeople(people)[k]))

EditPersonPaidAmount ==
  /\ Interactive
  /\ \E i \in 1..Len(people), amount \in {EmptyInput, Num(-1)} :
       /\ people[i].paid
       /\ Handled("editPerson", setPersonField(World, i, "paidAmount", amount))

EditExpensePayer ==
  /\ Interactive
  /\ \E i \in 1..Len(expenses), name \in UiNames \cup {<<>>} :
       Handled("editExpense", setExpenseField(World, i, "payer", name))

EditExpenseAmount ==
  /\ Interactive
  /\ \E i \in 1..Len(expenses), amount \in {EmptyInput} :
       Handled("editExpense", setExpenseField(World, i, "amount", amount))

\* the timeout of a celebration fires: `showConfetti.value = false`
ConfettiTimeout ==
  /\ \E t \in timers : timers' = timers \ {t}
  /\ showConfetti' = FALSE
  /\ op' = [op EXCEPT !.name = "confettiTimeout"]
  /\ UNCHANGED <<people, expenses, payments, shareId, isHydrated, encodedShare,
                 history, storage, pc, pending, env, events,
                 confettiTimer, settledSeen, unmounted>>

\* the component is torn down: its watchers stop, onUnmounted clears the
\* timeout confettiTimer names
Unmount ==
  /\ pc \in {"decompress", "done"}
  /\ ~unmounted
  /\ unmounted' = TRUE
  /\ timers' = timers \ {confettiTimer}
  /\ op' = [op EXCEPT !.name = "unmount"]
  /\ UNCHANGED <<people, expenses, payments, shareId, isHydrated, encodedShare,
                 history, storage, pc, pending, env, events,
                 showConfetti, confettiTimer, settledSeen>>

Next ==
  \/ Mount
  \/ LoadFromUrl
  \/ Mounted
  \/ SyncUrlResume
  \/ AddPerson
  \/ RemovePerson
  \/ AddExpense
  \/ RemoveExpense
  \/ LogPayment
  \/ ResetGroup
  \/ ShareSplit
  \/ EditPersonName
  \/ EditPersonPaid
  \/ EditPersonPaidTo
  \/ EditPersonPaidAmount
  \/ EditExpensePayer
  \/ EditExpenseAmount
  \/ ConfettiTimeout
  \/ Unmount

Spec == Init /\ [][Next]_vars

----------------------------------------------------------------------------
(* The engine on the states a payload can leave.  loadFromUrl keeps the    *)
(* fields of every entry as they are in the payload (names with blanks or  *)
(* in another case, empty names, negative amounts, payments from a name to *)
(* itself), so the state at the end of a load is any combination of such   *)
(* entries; the onMounted hook then goes on as in a session.               *)

EnginePeople ==
  <<Person(<<" ", "A">>, TRUE, Num(-1), <<" ", "b">>, FALSE),
    Person(sA, FALSE, Num(0), <<>>, FALSE),
    Person(sB, FALSE, Num(0), <<>>, FALSE),
    Person(sC, FALSE, Num(0), <<>>, TRUE),
    Person(<<>>, FALSE, Num(0), <<>>, FALSE)>>

EngineExpenses ==
  <<Expense(sA, Num(9000), <<>>),
    Expense(<<"B", " ">>, Num(9000), <<" ", "x">>),
    Expense(sB, Num(-5), <<>>),
    Expense(sA, Num(2), <<>>),
    Expense(sC, [t |-> "inf", v |-> 0], <<>>)>>

EnginePayments ==
  <<Payment(sB, sA, Num(3000), <<>>),
    Payment(sC, sA, Num(3000), <<>>),
    Payment(sB, sC, Num(3000), <<>>),
    Payment(sC, sC, Num(1000), <<>>),
    Payment(<<"B">>, sB, Num(1000), <<>>),
    Payment(<<" ">>, sA, Num(1000), <<>>),
    Payment(sA, sB, Num(4500), <<>>)>>

\* the lists of at most n entries of a pool, in the order of the pool
orderedLists(pool, n) ==
  UNION {{[i \in 1..k |-> pool[f[i]]] :
            f \in {g \in [1..k -> 1..Len(pool)] :
                     \A i, j \in 1..k : i < j => g[i] < g[j]}} : k \in 0..n}

EngineInit ==
  /\ people \in orderedLists(EnginePeople, MaxPeople)
  /\ expenses \in orderedLists(EngineExpenses, MaxExpenses)
  /\ payments \in orderedLists(EnginePayments, MaxPayments)
  /\ shareId = <<>>
  /\ isHydrated = FALSE
  /\ encodedShare = NoParam
  /\ history = <<NoParam>>
  /\ storage = NoItem
  /\ pc = "loaded"
  /\ pending = <<>>
  /\ env = Browser(FALSE, FALSE, FALSE)
  /\ events = 0
  /\ op = [name |-> "loadFromUrl", loaded |-> State(<<>>, <<>>, <<>>, <<>>),
           views |-> [computed |-> FALSE]]
  /\ showConfetti = FALSE
  /\ confettiTimer = 0
  /\ timers = {}
  /\ settledSeen = FALSE
  /\ unmounted = FALSE

\* the computed refs the template reads, evaluated on the current state
viewsOf(ps, es, ys) ==
  [computed |-> TRUE,
   uniquePeople |-> uniquePeople(ps),
   totalSpent |-> totalSpent(es),
   perPersonShare |-> perPersonShare(ps, es),
   sentByName |-> sentByName(ys),
   receivedByName |-> receivedByName(ys),
   balances |-> balances(ps, es, ys),
   allSettled |-> allSettled(ps, es, ys)]

\* the template renders: every computed ref is evaluated
Render ==
  /\ pc \in {"loaded", "done"}
  /\ ~op.views.computed
  /\ op' = [op EXCEPT !.views = viewsOf(people, expenses, payments)]
  /\ UNCHANGED <<people, expenses, payments, shareId, isHydrated, encodedShare,
                 history, storage, pc, pending, env, events,
                 showConfetti, confettiTimer, timers, settledSeen, unmounted>>

\* the rest of the onMounted hook, on a state that was not rendered yet
EngineMounted ==
  /\ pc = "loaded"
  /\ ~op.views.computed
  /\ Ran(mounted(World))
  /\ op' = [name |-> "mounted",
            loaded |-> State(people, expenses, payments, shareId),
            views |-> [computed |-> FALSE]]
  /\ pc' = "done"
  /\ UNCHANGED <<env, events>>

EngineNext ==
  \/ Render
  \/ EngineMounted

SpecEngine == EngineInit /\ [][EngineNext]_vars

----------------------------------------------------------------------------
(* The codec on the payloads a link or a stored item can carry (a record   *)
(* in the legacy shape, records with missing and wrong-typed fields, lists *)
(* that are no lists, texts whose JSON value is no object), in every       *)
(* browser: with and without each of the two stream classes, and with a    *)
(* compression stream that fails.  The page loads, the hook goes on, and   *)
(* the state that was loaded is encoded again.                             *)

\* a record in the legacy shape (people as plain name strings); a record
\* whose entries have missing and wrong-typed fields next to well-typed
\* ones, and entries that are no objects; `{"v":1}`; lists that are no
\* lists; empty lists; and JSON values that are no records
DecodePayloads ==
  { Obj([people |-> Arr(<<Str(sA), Str(<<" ", "B">>)>>),
         expenses |-> Arr(<<Obj([payer |-> Str(sA), amount |-> Num(2),
                                 note |-> Str(<<>>)])>>)]),
    Obj([v |-> Num(1),
         sid |-> Num(7),
         shareId |-> Null,
         people |-> Arr(<<Obj([name |-> Num(1), paid |-> Bool(TRUE),
                               paidAmount |-> Str(<<"5">>), paidTo |-> Str(sA)]),
                          Null,
                          Obj([name |-> Str(sB), paid |-> Str(<<"y">>),
                               auto |-> Bool(TRUE)]),
                          Str(sC)>>),
         expenses |-> Arr(<<Obj([payer |-> Str(sA), amount |-> Str(<<"5">>),
                                 note |-> Num(3)]),
                            Obj([amount |-> Num(7)]),
                            Num(4)>>),
         payments |-> Arr(<<Obj([from |-> Str(sB), to |-> Num(5), amount |-> Num(1)]),
                            Arr(<<>>)>>)]),
    Obj([v |-> Num(1)]),
    Obj([people |-> Str(sA), expenses |-> Obj([payer |-> Str(sA)]), payments |-> Null]),
    Obj([people |-> Arr(<<>>), payments |-> Arr(<<Str(sA)>>), sid |-> Str(<<"s">>),
         shareId |-> Str(<<"s">>)]),
    Arr(<<>>),
    Null,
    Num(5) }

\* each payload as a link made with and without compression and as a bare
\* base64url string, and as a stored item
CodecInit ==
  /\ people = <<>>
  /\ expenses = <<>>
  /\ payments = <<>>
  /\ shareId = <<>>
  /\ isHydrated = FALSE
  /\ encodedShare = NoParam
  /\ history \in
       {<<NoParam>>}
         \cup {<<compressString(JsonText(j), e, e.gzipWorks)>> :
                 j \in DecodePayloads, e \in Browsers}
         \cup {<<Encoded("", base64UrlEncodeString(JsonText(j)))>> : j \in DecodePayloads}
  /\ storage \in {NoItem} \cup {JsonText(j) : j \in DecodePayloads}
  /\ pc = "mount"
  /\ pending = <<>>
  /\ env \in {Browser(c, d, g) : c, d, g \in BOOLEAN}
  /\ events = 0
  /\ op = [name |-> "setup", loaded |-> State(<<>>, <<>>, <<>>, <<>>)]
  /\ showConfetti = FALSE
  /\ confettiTimer = 0
  /\ timers = {}
  /\ settledSeen = FALSE
  /\ unmounted = FALSE

SpecCodec ==
  CodecInit /\ [][Mount \/ LoadFromUrl \/ Mounted \/ SyncUrlResume]_vars

----------------------------------------------------------------------------
(* Properties of a session *)

\* the page is mounted and no call of syncUrl is suspended
Quiescent == pc = "done" /\ pending = <<>>

\* what the fragment and the stored item are when they hold the state as it is
currentFragment ==
  IF hasGroupData(people, expenses, payments)
  THEN compressString(
         JSONstringify(buildSharePayload(people, expenses, payments, shareId)),
         env, env.gzipWorks)
  ELSE NoParam

currentRecord == JSONstringify(storagePayload(people, expenses, payments, shareId))

\* C4: while isHydrated is false no step writes the stored item or the URL.
C4_NoWriteBeforeHydration ==
  [][~isHydrated' => (storage' = storage /\ history' = history)]_vars

\* C4, the URL alone: while isHydrated is false no step writes the URL.
C4_NoUrlWriteBeforeHydration ==
  [][~isHydrated' => history' = history]_vars

\* the state a load takes from a parsed source: each list the source has is
\* decoded, whatever it lacks stays as it was
takenPeople(before, parsed, legacy) ==
  IF member(parsed, "people").t # "arr" THEN before.people
  ELSE IF legacy /\ \A i \in 1..Len(member(parsed, "people").v) :
                       member(parsed, "people").v[i].t = "str"
       THEN [i \in 1..Len(member(parsed, "people").v) |->
              Person(member(parsed, "people").v[i].v, FALSE, Num(0), <<>>, FALSE)]
       ELSE decodePeople(member(parsed, "people").v)

takenFrom(before, parsed, sidField, legacy) ==
  [people |-> takenPeople(before, parsed, legacy),
   expenses |-> IF member(parsed, "expenses").t = "arr"
                THEN decodeExpenses(member(parsed, "expenses").v)
                ELSE before.expenses,
   payments |-> IF member(parsed, "payments").t = "arr"
                THEN decodePayments(member(parsed, "payments").v)
                ELSE before.payments,
   shareId |-> IF member(parsed, sidField).t = "str"
               THEN member(parsed, sidField).v ELSE before.shareId]

\* the text the fragment decodes to, when it does
fragmentText == decompressString(dataParam, env)

fragmentDecodes ==
  /\ dataParam # NoParam
  /\ fragmentText.ok
  /\ JSONparse(fragmentText.text).ok
  /\ JSONparse(fragmentText.text).val.t \in {"obj", "arr"}

recordParses == storage # NoItem /\ JSONparse(storage).ok

loadExpected(before) ==
  IF fragmentDecodes
  THEN takenFrom(before, JSONparse(fragmentText.text).val, "sid", FALSE)
  ELSE IF recordParses
       THEN takenFrom(before, JSONparse(storage).val, "shareId", TRUE)
       ELSE before

referencedKeys ==
  ({keyOf(expenses[i].payer) : i \in 1..Len(expenses)}
     \cup {keyOf(payments[i].from) : i \in 1..Len(payments)}
     \cup {keyOf(payments[i].to) : i \in 1..Len(payments)}) \ {<<>>}

\* C6: once the page is mounted and the watchers have run, every referenced
\* name has an entry in people and no entry flagged auto is unreferenced.
C6_PeopleMatchReferences ==
  pc = "done" =>
    /\ \A k \in referencedKeys : \E i \in 1..Len(people) : keyOf(people[i].name) = k
    /\ \A i \in 1..Len(people) : people[i].auto => keyOf(people[i].name) \in referencedKeys

\* C7: whenever a step writes the URL, the fragment it leaves encodes the
\* state as it is after that step.
C7_UrlWriteFresh ==
  [][history' # history => dataParam' = currentFragment']_vars

\* C8: after a resetGroup on the mounted page, once no call of syncUrl is
\* suspended, the lists are empty, there is no stored item and the URL has no
\* fragment.
C8_ResetClearsAll ==
  (op.name = "resetGroup" /\ Quiescent) =>
    /\ people = <<>> /\ expenses = <<>> /\ payments = <<>>
    /\ storage = NoItem
    /\ dataParam = NoParam

\* C8, the part about the state: after resetGroup the lists and the share id
\* are empty, whatever is still suspended.
C8_ResetEmptiesState ==
  op.name = "resetGroup" =>
    people = <<>> /\ expenses = <<>> /\ payments = <<>> /\ shareId = <<>>

\* C9: once the page is mounted and every call triggered by an edit has
\* finished, the stored item and the fragment both hold the current state,
\* and the history has the one entry it started with.
C9_PersistedWhenQuiescent ==
  Quiescent =>
    /\ storage = currentRecord
    /\ dataParam = currentFragment
    /\ Len(history) = 1

\* C9, the stored item alone
C9_StoredWhenQuiescent == Quiescent => storage = currentRecord

\* C16: once the page is mounted and nothing is suspended, an empty state
\* leaves the shareable link and the address bar without a fragment, and a
\* state that is not empty leaves the shareable link with the encoding of
\* the state as it is.
C16_ShareableLinkCurrent ==
  Quiescent =>
    IF hasGroupData(people, expenses, payments)
    THEN shareableUrl(people, expenses, payments, encodedShare) = currentFragment
    ELSE /\ shareableUrl(people, expenses, payments, encodedShare) = NoParam
         /\ dataParam = NoParam

\* C16 where `await compressString` resolves within the task (no
\* compression streams)
C16_CurrentWithoutStreams ==
  (Quiescent /\ ~awaitSuspends(env)) =>
    IF hasGroupData(people, expenses, payments)
    THEN shareableUrl(people, expenses, payments, encodedShare) = currentFragment
    ELSE /\ shareableUrl(people, expenses, payments, encodedShare) = NoParam
         /\ dataParam = NoParam

\* C16, the empty state alone: the shareable link of an empty state has no
\* fragment in any state, whatever encodedShare holds
C16_EmptyLinkBare ==
  ~hasGroupData(people, expenses, payments) =>
    shareableUrl(people, expenses, payments, encodedShare) = NoParam

----------------------------------------------------------------------------
(* Properties of the engine and the codec *)

RECURSIVE sumTo(_, _)
sumTo(f, n) == IF n = 0 THEN 0 ELSE f[n] + sumTo(f, n - 1)

\* a payment that counts: both ends named, and not the same name
countedPayment(y) ==
  trim(y.from) # <<>> /\ trim(y.to) # <<>> /\ trim(y.from) # trim(y.to)

\* the participants: the keys of the non-empty names in people
participants == {keyOf(people[i].name) : i \in 1..Len(people)} \ {<<>>}

spent == sumTo([i \in 1..Len(expenses) |-> clampAmount(expenses[i].amount)],
               Len(expenses))

paidBy(key) ==
  sumTo([i \in 1..Len(expenses) |->
           IF keyOf(expenses[i].payer) = key THEN clampAmount(expenses[i].amount)
           ELSE 0], Len(expenses))

sentBy(key) ==
  sumTo([i \in 1..Len(payments) |->
           IF countedPayment(payments[i]) /\ keyOf(payments[i].from) = key
           THEN clampAmount(payments[i].amount) ELSE 0], Len(payments))

receivedBy(key) ==
  sumTo([i \in 1..Len(payments) |->
           IF countedPayment(payments[i]) /\ keyOf(payments[i].to) = key
           THEN clampAmount(payments[i].amount) ELSE 0], Len(payments))

equalShare ==
  IF participants = {} \/ spent = 0 THEN RatOfInt(0)
  ELSE Rat(spent, Cardinality(participants))

balanceDue(key) ==
  RatSub(RatOfInt(paidBy(key) + sentBy(key) - receivedBy(key)), equalShare)

\* C1: in every rendered state `balances` has one row for each participant,
\* and the balance of the row of p is paid(p) + sent(p) - received(p) minus
\* the equal share, the sums matching p without regard to case.
C1_BalanceFormula ==
  op.views.computed =>
    /\ {toLowerCase(op.views.balances[i].name) : i \in 1..Len(op.views.balances)}
         = participants
    /\ Len(op.views.balances) = Cardinality(participants)
    /\ \A i \in 1..Len(op.views.balances) :
         op.views.balances[i].balance
           = balanceDue(toLowerCase(op.views.balances[i].name))

\* C1 witness: a paid 90.00 for a, b and c; the rows read +60.00, -30.00 and
\* -30.00
C1_ExampleRendered ==
  /\ op.views.computed
  /\ [i \in 1..Len(people) |-> people[i].name] = <<sA, sB, sC>>
  /\ expenses = <<Expense(sA, Num(9000), <<>>)>>
  /\ payments = <<>>
  /\ [i \in 1..Len(op.views.balances) |-> op.views.balances[i].balance]
       = <<RatOfInt(6000), RatOfInt(-3000), RatOfInt(-3000)>>

\* C2: in every rendered state allSettled is true exactly when something
\* was spent, there are at least two participants, at least one payment
\* counts, and every participant's balance is within 0.01 of zero.
C2_AllSettledIff ==
  op.views.computed =>
    (op.views.allSettled <=>
       /\ spent > 0
       /\ Cardinality(participants) >= 2
       /\ \E i \in 1..Len(payments) : countedPayment(payments[i])
       /\ \A k \in participants : RatLeq(RatAbs(balanceDue(k)), RatOfInt(1)))

\* C2 witness: the example of C1 after b and c have each paid 30.00 to a is
\* rendered as settled
C2_ExampleSettled ==
  /\ op.views.computed
  /\ [i \in 1..Len(people) |-> people[i].name] = <<sA, sB, sC>>
  /\ expenses = <<Expense(sA, Num(9000), <<>>)>>
  /\ payments = <<Payment(sB, sA, Num(3000), <<>>), Payment(sC, sA, Num(3000), <<>>)>>
  /\ op.views.allSettled

\* the normal form of the state: strings trimmed, amounts clamped at zero,
\* the payments that do not count left out
normalPeople ==
  [i \in 1..Len(people) |->
     Person(trim(people[i].name), people[i].paid,
            Num(clampAmount(people[i].paidAmount)), trim(people[i].paidTo),
            people[i].auto)]

normalExpenses ==
  [i \in 1..Len(expenses) |->
     Expense(trim(expenses[i].payer), Num(clampAmount(expenses[i].amount)),
             trim(expenses[i].note))]

normalPayment(y) ==
  Payment(trim(y.from), trim(y.to), Num(clampAmount(y.amount)), trim(y.note))

normalPayments ==
  LET counted == SelectSeq(payments, countedPayment)
  IN  [i \in 1..Len(counted) |-> normalPayment(counted[i])]

\* what a page in browser e decodes from the link a page in browser e makes
\* of the current state
roundTrip(e) ==
  loadFromUrl(State(<<>>, <<>>, <<>>, <<>>),
              compressString(
                JSONstringify(buildSharePayload(people, expenses, payments, shareId)),
                e, e.gzipWorks),
              NoItem, e).st

\* C3: decoding the encoding of the state gives the normal form of its
\* people, expenses and payments, with and without compression.
C3_RoundTrip ==
  \A e \in Browsers :
    /\ roundTrip(e).people = normalPeople
    /\ roundTrip(e).expenses = normalExpenses
    /\ roundTrip(e).payments = normalPayments

\* C3 without the people: the expenses and the payments come back in normal
\* form.
C3_RoundTripOfLists ==
  \A e \in Browsers :
    /\ roundTrip(e).expenses = normalExpenses
    /\ roundTrip(e).payments = normalPayments

\* the people list the hook leaves when it starts from the loaded state
\* with the payments ys
mountedPeople(ys) ==
  settle(mounted([World EXCEPT !.people = op.loaded.people, !.payments = ys,
                               !.isHydrated = FALSE, !.encodedShare = NoParam,
                               !.history = <<NoParam>>, !.storage = NoItem,
                               !.pending = <<>>]).w,
         <<"people">>, env).people

comparedViews(ps, es, ys) ==
  [sentByName |-> sentByName(ys),
   receivedByName |-> receivedByName(ys),
   uniquePeople |-> {toLowerCase(uniquePeople(ps)[i]) : i \in 1..Len(uniquePeople(ps))},
   perPersonShare |-> perPersonShare(ps, es),
   balances |-> balances(ps, es, ys),
   allSettled |-> allSettled(ps, es, ys)]

\* C10: once the sync passes have run on a loaded state, the sums sent and
\* received, the unique people, the share, the balances and allSettled are
\* what they are when the payments that do not count are left out of it.
C10_UncountedPaymentsExcluded ==
  op.name = "mounted" =>
    comparedViews(people, expenses, payments)
      = comparedViews(mountedPeople(SelectSeq(op.loaded.payments, countedPayment)),
                      expenses, SelectSeq(op.loaded.payments, countedPayment))

\* C10, the sums alone: the sums sent and received are those of the
\* payments that count.
C10_SumsExcludeUncounted ==
  op.name = "mounted" =>
    /\ sentByName(payments) = sentByName(SelectSeq(payments, countedPayment))
    /\ receivedByName(payments) = receivedByName(SelectSeq(payments, countedPayment))

\* the index of the first entry of people whose name has the key k
firstWith(k) ==
  CHOOSE i \in 1..Len(people) :
    keyOf(people[i].name) = k /\ \A j \in 1..(i - 1) : keyOf(people[j].name) # k

\* C12: in every rendered state uniquePeople holds only non-empty trimmed
\* names, no two equal without regard to case; it has one entry for each
\* key of a named person, spelled as the first entry with that key is, in
\* the order in which the keys first appear.
C12_UniquePeopleFirstSeen ==
  op.views.computed =>
    LET u == op.views.uniquePeople
    IN  /\ \A i \in 1..Len(u) : u[i] # <<>> /\ trim(u[i]) = u[i]
        /\ \A i, j \in 1..Len(u) : i # j => toLowerCase(u[i]) # toLowerCase(u[j])
        /\ {toLowerCase(u[i]) : i \in 1..Len(u)} = participants
        /\ \A i \in 1..Len(u) : u[i] = trim(people[firstWith(toLowerCase(u[i]))].name)
        /\ \A i, j \in 1..Len(u) :
             i < j => firstWith(toLowerCase(u[i])) < firstWith(toLowerCase(u[j]))

\* C12 witness: ' A', 'a' and 'b' are rendered as the two names 'A' and 'b'
C12_CollapsedRendered ==
  /\ op.views.computed
  /\ [i \in 1..Len(people) |-> people[i].name] = <<<<" ", "A">>, sA, sB>>
  /\ op.views.uniquePeople = <<<<"A">>, sB>>

\* C13: in every rendered state perPersonShare times the number of
\* participants is the total spent when both are positive, and it is 0
\* otherwise; its denominator is never 0.
C13_ShareIsQuotient ==
  op.views.computed =>
    /\ op.views.perPersonShare.den > 0
    /\ IF spent > 0 /\ Cardinality(participants) > 0
       THEN op.views.perPersonShare.num * Cardinality(participants)
              = spent * op.views.perPersonShare.den
       ELSE op.views.perPersonShare.num = 0

\* C13 witness: 90.00 spent among ' A', 'a', 'b' and 'c', three participants,
\* is rendered as a share of 30.00
C13_ShareRendered ==
  /\ op.views.computed
  /\ Len(people) > Cardinality(participants)
  /\ Cardinality(participants) = 3
  /\ spent = 9000
  /\ op.views.perPersonShare = RatOfInt(3000)

\* C13 in a session: the share of the current state is such a quotient in
\* every state edits reach.
C13_ShareInSession ==
  /\ perPersonShare(people, expenses).den > 0
  /\ IF spent > 0 /\ Cardinality(participants) > 0
     THEN perPersonShare(people, expenses).num * Cardinality(participants)
            = spent * perPersonShare(people, expenses).den
     ELSE perPersonShare(people, expenses).num = 0

\* what the person with key k still owes: max(0, share - paid)
owedRemainder(k) ==
  IF RatSub(equalShare, RatOfInt(paidBy(k))).num > 0
  THEN RatSub(equalShare, RatOfInt(paidBy(k)))
  ELSE RatOfInt(0)

\* the payments of k cover what k owes, within 0.01
covers(k) == RatLeq(RatSub(owedRemainder(k), RatOfInt(1)), RatOfInt(sentBy(k)))

\* what k sent to r, and the first payment by which k sent something to r
sentTo(k, r) ==
  sumTo([i \in 1..Len(payments) |->
           IF countedPayment(payments[i]) /\ keyOf(payments[i].from) = k
              /\ keyOf(payments[i].to) = r
           THEN clampAmount(payments[i].amount) ELSE 0], Len(payments))

firstTo(k, r) ==
  CHOOSE i \in 1..Len(payments) :
    /\ countedPayment(payments[i]) /\ keyOf(payments[i].from) = k
    /\ keyOf(payments[i].to) = r /\ clampAmount(payments[i].amount) > 0
    /\ \A j \in 1..(i - 1) :
         ~(countedPayment(payments[j]) /\ keyOf(payments[j].from) = k
           /\ keyOf(payments[j].to) = r /\ clampAmount(payments[j].amount) > 0)

recipientsOf(k) ==
  {keyOf(payments[i].to) : i \in {j \in 1..Len(payments) :
     countedPayment(payments[j]) /\ keyOf(payments[j].from) = k
     /\ clampAmount(payments[j].amount) > 0}}

\* r received the most from k, the earlier payment deciding between equals
isTopRecipient(k, r) ==
  /\ r \in recipientsOf(k)
  /\ \A q \in recipientsOf(k) :
       \/ sentTo(k, r) > sentTo(k, q)
       \/ sentTo(k, r) = sentTo(k, q) /\ firstTo(k, r) <= firstTo(k, q)

\* the people list the status pass of the hook started from
statusBefore ==
  syncPeopleFromExpenses(op.loaded.people, op.loaded.expenses, op.loaded.payments).people

\* what the claim says of the i-th person once the pass has run
markedAsPaid(i) ==
  /\ people[i].paid
  /\ statusBefore[i].paidAmount = Num(0) =>
       people[i].paidAmount = Num(sentBy(keyOf(people[i].name)))
  /\ (statusBefore[i].paidTo = <<>> /\ recipientsOf(keyOf(people[i].name)) # {}) =>
       isTopRecipient(keyOf(people[i].name), keyOf(people[i].paidTo))

C14_StatusInSession ==
  pc = "done" =>
    \A i \in 1..Len(people) :
      (/\ keyOf(people[i].name) # <<>>
       /\ owedRemainder(keyOf(people[i].name)).num > 0
       /\ covers(keyOf(people[i].name)))
        => /\ people[i].paid
           /\ people[i].paidAmount = Num(0) => sentBy(keyOf(people[i].name)) = 0
           /\ people[i].paidTo = <<>> =>
                \A r \in participants : ~isTopRecipient(keyOf(people[i].name), r)

leastOf(S) == CHOOSE i \in S : \A j \in S : i <= j

\* the first occurrence of the key k: in the payers, else in the payments'
\* senders, else in their recipients
firstOccurrence(k) ==
  IF \E i \in 1..Len(expenses) : keyOf(expenses[i].payer) = k
  THEN expenses[leastOf({i \in 1..Len(expenses) : keyOf(expenses[i].payer) = k})].payer
  ELSE IF \E i \in 1..Len(payments) : keyOf(payments[i].from) = k
  THEN payments[leastOf({i \in 1..Len(payments) : keyOf(payments[i].from) = k})].from
  ELSE payments[leastOf({i \in 1..Len(payments) : keyOf(payments[i].to) = k})].to

\* the keys the hook's sync pass found referenced and without an entry
missingKeys ==
  referencedKeys \ {keyOf(op.loaded.people[i].name) : i \in 1..Len(op.loaded.people)}

\* C20: once the hook's sync pass has run, every key that was referenced
\* and had no entry has exactly one entry, flagged auto, spelled as the
\* first occurrence of the key is (payers, then senders, then recipients).
C20_AutoEntryFirstCasing ==
  op.name = "mounted" =>
    \A k \in missingKeys :
      /\ Cardinality({i \in 1..Len(people) : keyOf(people[i].name) = k}) = 1
      /\ \A i \in 1..Len(people) :
           keyOf(people[i].name) = k =>
             people[i].auto /\ trim(people[i].name) = trim(firstOccurrence(k))

\* C20 witness: b had no entry, 'B' sent a payment to 'b'; one auto entry
\* 'B' was appended
C20_SenderCasingKept ==
  /\ op.name = "mounted"
  /\ <<"b">> \in missingKeys
  /\ expenses = <<>>
  /\ payments = <<Payment(<<"B">>, sB, Num(1000), <<>>)>>
  /\ \E i \in 1..Len(people) : people[i] = Person(<<"B">>, FALSE, Num(0), <<>>, TRUE)

\* what an amount contributes: itself when it is a finite number above 0
contribution(x) == IF x.t = "num" /\ x.v >= 0 THEN x.v ELSE 0

\* C17: in every rendered state totalSpent is the sum of what the amounts
\* contribute, a negative or non-finite amount contributing 0, and it is
\* not negative.
C17_TotalIsClampedSum ==
  op.views.computed =>
    /\ op.views.totalSpent
         = sumTo([i \in 1..Len(expenses) |-> contribution(expenses[i].amount)],
                 Len(expenses))
    /\ op.views.totalSpent >= 0

\* C17 witness: a negative amount next to an amount of 90.00 is rendered as
\* a total of 90.00
C17_NegativeRendered ==
  /\ op.views.computed
  /\ \E i \in 1..Len(expenses) : expenses[i].amount = Num(-5)
  /\ op.views.totalSpent = 9000

\* C17 witness for a non-finite amount: it is rendered as contributing 0
C17_NonFiniteRendered ==
  /\ op.views.computed
  /\ \E i \in 1..Len(expenses) : expenses[i].amount.t = "inf"
  /\ op.views.totalSpent = 2

----------------------------------------------------------------------------
(* Properties of the loaders *)

\* the parsed value a load takes its state from: the fragment's when the
\* fragment decodes, else the stored item's when it parses
loadSource ==
  IF fragmentDecodes THEN JSONparse(fragmentText.text).val
  ELSE IF recordParses THEN JSONparse(storage).val
  ELSE Undefined

\* the source's people is a list of name strings, at least one
legacyShape(parsed) ==
  /\ member(parsed, "people").t = "arr"
  /\ member(parsed, "people").v # <<>>
  /\ \A i \in 1..Len(member(parsed, "people").v) : member(parsed, "people").v[i].t = "str"

namesAsPeople(parsed) ==
  [i \in 1..Len(member(parsed, "people").v) |->
     [name |-> member(parsed, "people").v[i].v, paid |-> FALSE,
      paidAmount |-> Num(0), paidTo |-> <<>>, auto |-> FALSE]]

\* C11: a load from a source (fragment or stored item) whose people is a
\* plain list of name strings leaves one person per string, in the same
\* order, unpaid, with no amount, no recipient and auto = false.
C11_LegacyPeopleAccepted ==
  [][(pc' = "loaded" /\ pc # "loaded" /\ legacyShape(loadSource)) =>
       op'.loaded.people = namesAsPeople(loadSource)]_vars

\* C11, the stored item alone: a load that falls back to a stored item in
\* the legacy shape leaves one person per string.
C11_LegacyRecordAccepted ==
  [][(pc' = "loaded" /\ pc # "loaded" /\ ~fragmentDecodes /\ legacyShape(loadSource)) =>
       op'.loaded.people = namesAsPeople(loadSource)]_vars

\* what a field of an entry decodes to: its value when the entry has it with
\* the type t, the zero value otherwise
fieldOr(entry, f, t, zero) ==
  IF entry.t = "obj" /\ f \in DOMAIN entry.v /\ entry.v[f].t = t
  THEN entry.v[f].v ELSE zero

numberOr(entry, f) ==
  IF entry.t = "obj" /\ f \in DOMAIN entry.v /\ entry.v[f].t \in {"num", "inf"}
  THEN entry.v[f] ELSE Num(0)

\* the entries of the list f of the source that are records; no entry when
\* the source has no such list
recordsOf(parsed, f) ==
  IF member(parsed, f).t = "arr"
  THEN SelectSeq(member(parsed, f).v, LAMBDA x : x.t \in {"obj", "arr"})
  ELSE <<>>

\* C15: a load from a source that parses leaves, for every record of each
\* list, every field decoded on its own: the value when it has the right
\* type, '' / 0 / false when it is missing or of another type; a source
\* without a list leaves that list empty.  (People given as plain strings
\* are the legacy shape, not records.)
C15_FieldsDecodedOnTheirOwn ==
  [][(pc' = "loaded" /\ pc # "loaded" /\ (fragmentDecodes \/ recordParses)) =>
       /\ legacyShape(loadSource)
          \/ op'.loaded.people
               = [i \in 1..Len(recordsOf(loadSource, "people")) |->
                    [name |-> fieldOr(recordsOf(loadSource, "people")[i], "name", "str", <<>>),
                     paid |-> fieldOr(recordsOf(loadSource, "people")[i], "paid", "bool", FALSE),
                     paidAmount |-> numberOr(recordsOf(loadSource, "people")[i], "paidAmount"),
                     paidTo |-> fieldOr(recordsOf(loadSource, "people")[i], "paidTo", "str", <<>>),
                     auto |-> fieldOr(recordsOf(loadSource, "people")[i], "auto", "bool", FALSE)]]
       /\ op'.loaded.expenses
            = [i \in 1..Len(recordsOf(loadSource, "expenses")) |->
                 [payer |-> fieldOr(recordsOf(loadSource, "expenses")[i], "payer", "str", <<>>),
                  amount |-> numberOr(recordsOf(loadSource, "expenses")[i], "amount"),
                  note |-> fieldOr(recordsOf(loadSource, "expenses")[i], "note", "str", <<>>)]]
       /\ op'.loaded.payments
            = [i \in 1..Len(recordsOf(loadSource, "payments")) |->
                 [from |-> fieldOr(recordsOf(loadSource, "payments")[i], "from", "str", <<>>),
                  to |-> fieldOr(recordsOf(loadSource, "payments")[i], "to", "str", <<>>),
                  amount |-> numberOr(recordsOf(loadSource, "payments")[i], "amount"),
                  note |-> fieldOr(recordsOf(loadSource, "payments")[i], "note", "str", <<>>)]]]_vars

\* C15 witness: the record with wrong-typed and missing fields was loaded;
\* the well-typed fields of its entries are kept, the others are zero
C15_MistypedLoaded ==
  /\ pc = "loaded"
  /\ op.loaded.people = <<Person(<<>>, TRUE, Num(0), sA, FALSE),
                           Person(sB, FALSE, Num(0), <<>>, TRUE)>>
  /\ op.loaded.expenses = <<Expense(sA, Num(0), <<>>), Expense(<<>>, Num(7), <<>>)>>
  /\ op.loaded.payments = <<Payment(sB, <<>>, Num(1), <<>>), Payment(<<>>, <<>>, Num(0), <<>>)>>

\* C15 witness for `{"v":1}`: the link decodes, the lists are empty and the
\* stored record was not consulted
C15_BareLoaded ==
  /\ pc = "loaded"
  /\ fragmentDecodes
  /\ JSONparse(fragmentText.text).val = Obj([v |-> Num(1)])
  /\ recordParses
  /\ recordsOf(JSONparse(storage).val, "expenses") # <<>>
  /\ op.loaded = State(<<>>, <<>>, <<>>, <<>>)

\* the JSON text of the state as the share payload
payloadText ==
  [kind |-> "json",
   j |-> jsonOf(buildSharePayload(people, expenses, payments, shareId))]

\* C19: whenever syncUrl writes what compressString returned for a text
\* (the payload of the state, or the one a suspended call holds), the string
\* is 'c1.' + base64url(gzip of the UTF-8 of the text) when both stream
\* classes exist and the compression succeeds, and 'u1.' + base64url(UTF-8
\* of the text) in every other browser; it is never without a prefix.
C19_EncodingPrefixed ==
  [][(encodedShare' # encodedShare /\ encodedShare' # NoParam) =>
       /\ encodedShare'.prefix \in {"c1.", "u1."}
       /\ encodedShare'.body.b64
       /\ \E text \in {payloadText'} \cup {pending[i].text : i \in 1..Len(pending)} :
            IF env.CompressionStream /\ env.DecompressionStream /\ env.gzipWorks
            THEN /\ encodedShare'.prefix = "c1."
                 /\ encodedShare'.body.bytes
                      = [enc |-> "gzip", of |-> [enc |-> "utf8", of |-> text]]
            ELSE /\ encodedShare'.prefix = "u1."
                 /\ encodedShare'.body.bytes = [enc |-> "utf8", of |-> text]]_vars

\* C19 witness: both stream classes exist, the compression stream failed,
\* and the link written is the 'u1.' encoding of the state
C19_FellBackToU1 ==
  /\ env.CompressionStream /\ env.DecompressionStream /\ ~env.gzipWorks
  /\ pc = "done"
  /\ encodedShare.prefix = "u1."
  /\ encodedShare.body.bytes = [enc |-> "utf8", of |-> payloadText]
  /\ dataParam = encodedShare


(* ---- The celebration timer ---- *)

\* C18: at most one celebration timeout is pending, and it is the one
\* confettiTimer names: scheduling a new one on a false-to-true transition of
\* allSettled cancels the pending one, and tearing the component down cancels
\* it. So a timeout that fires and switches showConfetti off is the latest
\* one scheduled, and none fires once the component is torn down.
C18_OneConfettiTimer ==
  /\ [](/\ Cardinality(timers) <= 1
        /\ timers \subseteq {confettiTimer}
        /\ unmounted => timers = {})
  /\ [][ConfettiTimeout =>
          /\ ~unmounted
          /\ timers \ timers' = {confettiTimer}]_vars

\* a second celebration was scheduled in the session and is pending alone
C18_SecondTimerPending ==
  confettiTimer = 2 /\ timers = {2} /\ showConfetti /\ ~unmounted

\* the component was torn down while a celebration was pending
C18_TornDownWhilePending ==
  unmounted /\ op.name = "unmount" /\ confettiTimer # 0 /\ showConfetti

----------------------------------------------------------------------------
(* Properties of the sync passes and the handlers *)

\* the hook's call of syncPeopleFromExpenses: what it returned, and the
\* world it left when it started with nothing stored
syncCall ==
  [returned |-> syncPeopleFromExpenses(op.loaded.people, op.loaded.expenses,
                                       op.loaded.payments).changed,
   after |-> watchExpenses([World EXCEPT !.people = op.loaded.people,
                                         !.storage = NoItem])]

\* an entry of the loaded list that the pass drops: it has no name, or it
\* is flagged auto and nothing refers to it
droppedEntries ==
  {i \in 1..Len(op.loaded.people) :
     \/ keyOf(op.loaded.people[i].name) = <<>>
     \/ op.loaded.people[i].auto
        /\ keyOf(op.loaded.people[i].name) \notin referencedKeys}

\* C21: the hook's call of syncPeopleFromExpenses returned true exactly when
\* it changed the people list, which is exactly when it appended an entry
\* for a missing key or dropped an entry; it wrote the stored item exactly
\* in that case, and what it wrote is the record of the list it left.
C21_ChangedIffListChanged ==
  op.name = "mounted" =>
    /\ syncCall.returned <=> syncCall.after.people # op.loaded.people
    /\ syncCall.returned <=> (missingKeys # {} \/ droppedEntries # {})
    /\ syncCall.after.people = statusBefore
    /\ syncCall.after.storage =
         IF syncCall.returned
         THEN JSONstringify(storagePayload(statusBefore, expenses, payments, shareId))
         ELSE NoItem

\* C21 witness: the pass appended one entry and dropped one, so the list is
\* as long as before; it returned true and wrote the stored item
C21_AppendedAndDropped ==
  /\ op.name = "mounted"
  /\ missingKeys # {}
  /\ droppedEntries # {}
  /\ Len(statusBefore) = Len(op.loaded.people)
  /\ syncCall.returned
  /\ syncCall.after.storage # NoItem

\* C21 witness: the list needed no change; the pass returned false and wrote
\* nothing
C21_NothingToChange ==
  /\ op.name = "mounted"
  /\ op.loaded.people # <<>>
  /\ expenses # <<>>
  /\ ~syncCall.returned
  /\ syncCall.after.storage = NoItem

\* removePerson has nothing to do for the index i: it is out of range, the
\* entry has no name, or the entry's key is the payer of an expense above 0
removalRefused(i) ==
  \/ i \notin 1..Len(people)
  \/ keyOf(people[i].name) = <<>>
  \/ \E j \in 1..Len(expenses) :
       /\ keyOf(expenses[j].payer) = keyOf(people[i].name)
       /\ clampAmount(expenses[j].amount) > 0

\* the payments that do not have the key of entry i at either end
paymentsWithout(i) ==
  SelectSeq(payments, LAMBDA y : /\ keyOf(y.from) # keyOf(people[i].name)
                                 /\ keyOf(y.to) # keyOf(people[i].name))

\* C22: in every state of a session, removePerson(i) leaves people, expenses
\* and payments as they are when i is out of range, when entry i has no
\* name, and when its key paid an expense above 0; otherwise it leaves
\* people without entry i, payments without the payments that have that key
\* at either end, and expenses as they are.  A step of the session in which
\* a person is removed leaves expenses as they are, and payments without the
\* payments of a removed key.
C22_RemovePersonFrame ==
  /\ [](\A i \in 0..(Len(people) + 1) :
          IF removalRefused(i)
          THEN removePerson(World, i) = Same(World)
          ELSE /\ removePerson(World, i).w.people
                    = [j \in 1..(Len(people) - 1) |->
                         IF j < i THEN people[j] ELSE people[j + 1]]
               /\ removePerson(World, i).w.payments = paymentsWithout(i)
               /\ removePerson(World, i).w.expenses = expenses)
  /\ [][RemovePerson =>
          /\ expenses' = expenses
          /\ \E i \in 1..Len(people) :
               ~removalRefused(i) /\ payments' = paymentsWithout(i)]_vars

\* C22 witness: b's payment to a was logged and is in the link being
\* written; then b was removed, and the payment with b
C22_RemovedWithPayments ==
  /\ op.name = "removePerson"
  /\ [i \in 1..Len(people) |-> people[i].name] = <<sA, sC>>
  /\ payments = <<>>
  /\ expenses = <<Expense(sA, Num(9000), <<>>)>>
  /\ \E k \in 1..Len(pending) :
       pending[k].text =
         JSONstringify(buildSharePayload(
           <<Person(sA, FALSE, Num(0), <<>>, FALSE),
             Person(sB, TRUE, Num(3000), sA, FALSE),
             Person(sC, TRUE, Num(3000), sA, FALSE)>>,
           expenses, <<Payment(sB, sA, Num(3000), Settlement)>>, <<>>))

\* the sum of the balances of the first n rows
RECURSIVE balanceSum(_, _)
balanceSum(rows, n) ==
  IF n = 0 THEN RatOfInt(0)
  ELSE RatSub(balanceSum(rows, n - 1),
              [num |-> 0 - rows[n].balance.num, den |-> rows[n].balance.den])

\* the balances of the current state sum to zero
conserved ==
  balanceSum(balances(people, expenses, payments),
             Len(balances(people, expenses, payments))).num = 0

\* every expense above 0 is paid by a participant, and every payment that
\* counts goes from a participant to a participant
allAccounted ==
  /\ \A j \in 1..Len(expenses) :
       clampAmount(expenses[j].amount) > 0 => keyOf(expenses[j].payer) \in participants
  /\ \A i \in 1..Len(payments) :
       countedPayment(payments[i]) =>
         /\ keyOf(payments[i].from) \in participants
         /\ keyOf(payments[i].to) \in participants

\* C23: the balances sum to zero in every state in which every expense
\* above 0 is paid by a participant and both ends of every payment that
\* counts are participants, and they sum to zero in every quiescent state.
C23_BalancesSumToZero ==
  /\ allAccounted => conserved
  /\ Quiescent => conserved

\* C23, the first half: the balances sum to zero whenever every expense
\* above 0 and every payment that counts is accounted for by participants.
C23_ConservedWhenAccounted == allAccounted => conserved

\* C23 in the states the hook leaves: they sum to zero once the passes have
\* run on a loaded state, unless an expense above 0 names no payer.
C23_ConservedOnceSynced ==
  (/\ op.name = "mounted"
   /\ \A j \in 1..Len(expenses) :
        clampAmount(expenses[j].amount) > 0 => keyOf(expenses[j].payer) # <<>>)
    => allAccounted /\ conserved

\* the number of jobs the pre-flush loop runs from the queue `queue` on the
\* world w before the queue is empty
RECURSIVE cascadeRuns(_, _)
RECURSIVE cascadeRest(_, _)
cascadeRest(rest, r) == cascadeRuns(queueFor(rest, r.set), r.w)

cascadeRuns(queue, w) ==
  IF queue = <<>> THEN 0 ELSE 1 + cascadeRest(Tail(queue), runJob(Head(queue), w))

\* the lists an edit can assign
editedRefs == {<<"people">>, <<"expenses">>, <<"payments">>,
               <<"payments", "people">>, <<"people", "expenses", "payments">>}

\* syncPeopleFromExpenses followed by syncPeoplePaymentStatus changes nothing
\* in the world w
passesAtRest(w) ==
  /\ ~syncPeopleFromExpenses(w.people, w.expenses, w.payments).changed
  /\ syncPeopleFromExpenses(w.people, w.expenses, w.payments).people = w.people
  /\ syncPeoplePaymentStatus(w.people, w.expenses, w.payments) = w.people

\* C24: from every state and for every list an edit assigns, the watchers'
\* cascade ends after at most six runs; and in every quiescent state
\* of a session syncPeopleFromExpenses followed by syncPeoplePaymentStatus
\* changes nothing.
C24_CascadeSettles ==
  /\ \A set \in editedRefs : cascadeRuns(queueFor(<<>>, set), World) <= 6
  /\ Quiescent => passesAtRest(World)

\* C24, termination: from every state a payload can leave and for every list
\* an edit assigns, the cascade ends after at most six runs; when expenses
\* or payments were assigned, the two passes change nothing in the state it
\* leaves.
C24_CascadeTerminates ==
  pc = "loaded" =>
    \A set \in editedRefs :
      /\ cascadeRuns(queueFor(<<>>, set), World) <= 6
      /\ set # <<"people">> => passesAtRest(flushPre(queueFor(<<>>, set), World))

\* C24, idempotence: on every state a payload can leave, each pass run twice
\* leaves what it leaves when run once.
C24_PassesIdempotent ==
  /\ syncPeopleFromExpenses(
       syncPeopleFromExpenses(people, expenses, payments).people,
       expenses, payments)
       = [people |-> syncPeopleFromExpenses(people, expenses, payments).people,
          changed |-> FALSE]
  /\ syncPeoplePaymentStatus(
       syncPeoplePaymentStatus(people, expenses, payments), expenses, payments)
       = syncPeoplePaymentStatus(people, expenses, payments)

\* C25: the hook's status pass only fills in. It leaves the list as long as
\* it was, every name and every auto flag as they were, every paid that was
\* true, every paidAmount that was not 0 and every paidTo that was not
\* empty; it leaves every person whose payments do not cover what they owe
\* as they were, and expenses and payments as they were.
C25_StatusOnlyBackfills ==
  op.name = "mounted" =>
    /\ Len(people) = Len(statusBefore)
    /\ expenses = op.loaded.expenses
    /\ payments = op.loaded.payments
    /\ \A i \in 1..Len(people) :
         /\ people[i].name = statusBefore[i].name
         /\ people[i].auto = statusBefore[i].auto
         /\ statusBefore[i].paid => people[i].paid
         /\ statusBefore[i].paidAmount # Num(0) =>
              people[i].paidAmount = statusBefore[i].paidAmount
         /\ statusBefore[i].paidTo # <<>> => people[i].paidTo = statusBefore[i].paidTo
         /\ ~covers(keyOf(people[i].name)) => people[i] = statusBefore[i]

\* C25 witness: ' A' owed 45.00 and sent 45.00 to b; the entry was marked
\* paid with an amount of -0.01 to ' b' and is left with both
C25_MarkedEntryKept ==
  /\ op.name = "mounted"
  /\ owedRemainder(sA).num > 0
  /\ covers(sA)
  /\ sentBy(sA) = 4500
  /\ \E i \in 1..Len(people) :
       /\ statusBefore[i] = Person(<<" ", "A">>, TRUE, Num(-1), <<" ", "b">>, FALSE)
       /\ people[i] = statusBefore[i]

\* C25 witness: c owed 30.00 and sent 30.00 to a; the auto entry of c had no
\* status and has paid, paidAmount and paidTo filled in
C25_EmptyEntryFilled ==
  /\ op.name = "mounted"
  /\ \E i \in 1..Len(people) :
       /\ statusBefore[i] = Person(sC, FALSE, Num(0), <<>>, TRUE)
       /\ people[i] = Person(sC, TRUE, Num(3000), sA, TRUE)

\* logPaymentForPerson logs a payment for entry i: the person is marked
\* paid, both names are non-empty and different, and paidAmount is above 0
logAccepted(i) ==
  /\ people[i].paid
  /\ trim(people[i].name) # <<>>
  /\ trim(people[i].paidTo) # <<>>
  /\ trim(people[i].name) # trim(people[i].paidTo)
  /\ people[i].paidAmount.t = "num"
  /\ people[i].paidAmount.v > 0

\* C26, the effect: in every state of a session logPaymentForPerson appends
\* the one payment {from: trimmed name, to: trimmed paidTo, amount:
\* paidAmount, note: 'Settlement'} when the person is marked paid, both
\* names are non-empty and different and paidAmount is above 0, and returns
\* without an assignment in every other case.
C26_AppendsOnePayment ==
  \A i \in 1..Len(people) :
    IF logAccepted(i)
    THEN logPaymentForPerson(World, i).w
           = [World EXCEPT !.payments =
                Append(payments, Payment(trim(people[i].name), trim(people[i].paidTo),
                                         people[i].paidAmount, Settlement))]
    ELSE logPaymentForPerson(World, i) = Same(World)

\* C26: that effect, and every payment a step of the session logs is a
\* payment that counts, with an amount above 0, between two different
\* participants.
C26_LoggedPaymentsValid ==
  /\ []C26_AppendsOnePayment
  /\ [][LogPayment =>
          /\ Len(payments') = Len(payments) + 1
          /\ SubSeq(payments', 1, Len(payments)) = payments
          /\ countedPayment(payments'[Len(payments')])
          /\ clampAmount(payments'[Len(payments')].amount) > 0
          /\ keyOf(payments'[Len(payments')].from) \in participants'
          /\ keyOf(payments'[Len(payments')].to) \in participants'
          /\ keyOf(payments'[Len(payments')].from)
               # keyOf(payments'[Len(payments')].to)]_vars

\* C26 without the last conjunct: every payment a step of the session logs
\* counts, has an amount above 0 and has participants at both ends.
C26_LoggedPaymentsCount ==
  [][LogPayment =>
       /\ Len(payments') = Len(payments) + 1
       /\ SubSeq(payments', 1, Len(payments)) = payments
       /\ countedPayment(payments'[Len(payments')])
       /\ clampAmount(payments'[Len(payments')].amount) > 0
       /\ keyOf(payments'[Len(payments')].from) \in participants'
       /\ keyOf(payments'[Len(payments')].to) \in participants']_vars

====
